---- MODULE Spec2Model ----
(***************************************************************************)
(* Model of the FaultMaven API gateway request pipeline:                   *)
(*   gateway/core/circuit_breaker.py  (CircuitBreaker, CircuitStats)       *)
(*   gateway/api/middleware.py        (AuthMiddleware)                     *)
(*   gateway/api/routes.py            (proxy_request)                      *)
(*   gateway/core/user_context.py     (UserContext.to_headers)             *)
(*   gateway/infrastructure/fm_auth_provider.py  (FMAuthProvider)          *)
(*   gateway/infrastructure/supabase_provider.py (SupabaseProvider)        *)
(*   gateway/main.py                  (_create_auth_provider)              *)
(***************************************************************************)
EXTENDS Integers, Sequences, FiniteSets, TLC

(***************************************************************************)
(* Bounds of the model.                                                    *)
(***************************************************************************)
MaxTime == 3            \* the clock runs from 1 to MaxTime
MaxFailureCount == 3    \* record_failure is not called on a record that counts this many
MaxAdmitted == 2        \* is_call_allowed is not called again after this many trial admissions
MaxHeaders == 2         \* header lines a caller sends besides Authorization

Services == {"svc-x", "svc-y"}

\* The constructor arguments the model is run with (circuit_breaker.py 64-70).
Configurations ==
    { [enabled |-> TRUE,  fail_threshold |-> 2, reset_timeout |-> 2, half_open_max_calls |-> 1],
      [enabled |-> TRUE,  fail_threshold |-> 2, reset_timeout |-> 1, half_open_max_calls |-> 2],
      [enabled |-> TRUE,  fail_threshold |-> 1, reset_timeout |-> 2, half_open_max_calls |-> 2],
      [enabled |-> FALSE, fail_threshold |-> 2, reset_timeout |-> 2, half_open_max_calls |-> 1] }

VARIABLES
    now,                  \* the value time.time() returns
    enabled,              \* CircuitBreaker.enabled
    fail_threshold,       \* CircuitBreaker.fail_threshold
    reset_timeout,        \* CircuitBreaker.reset_timeout
    half_open_max_calls,  \* CircuitBreaker.half_open_max_calls
    circuits,             \* CircuitBreaker._circuits : service name -> CircuitStats
    last,                 \* history: the breaker call made at this instant, its result and the record it found
    streak,               \* history: record_failure calls on a CLOSED record since the last record_success
    admitted,             \* history: calls admitted since the record became HALF_OPEN
    auth_required,        \* AuthMiddleware.auth_required
    pc,                   \* where the request in the pipeline is
    client,               \* the request as the caller sent it: path and header lines
    request,              \* the Request the handlers see: url.path, headers, state.user_headers
    forwarded,            \* the request httpx sent to the backend, if one was sent
    response,             \* the response returned to the caller
    auth_provider,        \* settings.primary_auth_provider of the provider the app started with
    jwks,                 \* what the JWKS endpoint of fm-auth-service answers
    validated,            \* history: auth_provider.validate_token was called for this request
    outcome,              \* history: what the backend call came to
    threads,              \* the callers of the breaker: the call each is in and where in it
    lock,                 \* CircuitBreaker._lock: the thread that holds it
    serial,               \* history: the records after the completed calls, applied one at a time
    user_context,         \* a UserContext
    encoded,              \* what to_headers returned for it
    reports,              \* history: the record_success and record_failure calls proxy_request made for this request
    rate_limiter,         \* RateLimiter: enabled, requests_per_minute, burst_size, _memory_buckets
    redis_client,         \* RedisClient.client is not None
    redis,                \* the Redis server: whether it answers, and its keys with their expiry
    decision,             \* history: the last is_allowed call, the backend that served it and its result
    rl_callers,           \* the callers of is_allowed: where in _check_memory each is, and the lock holder
    coroutines,           \* the requests on the event loop: where each is
    running,              \* the coroutine the event loop's thread is executing, if any
    key_cache,            \* FMAuthProvider._cached_key and _cache_time
    jwk_server,           \* the signing key fm-auth-service publishes now
    fetched,              \* history: the key and timestamp of the last completed fetch
    in_flight             \* the proxied calls between is_call_allowed and their report, and what was reported

breakerVars == <<now, enabled, fail_threshold, reset_timeout, half_open_max_calls,
                 circuits, last, streak, admitted>>

pipelineVars == <<auth_required, pc, client, request, forwarded, response,
                  auth_provider, jwks, validated, outcome, reports>>

threadVars == <<threads, lock, serial>>

encodeVars == <<user_context, encoded>>

limiterVars == <<rate_limiter, redis_client, redis, decision, rl_callers>>

loopVars == <<coroutines, running, key_cache, jwk_server, fetched>>

flightVars == <<in_flight>>

restVars == <<limiterVars, loopVars, flightVars>>

\* what the calls of the breaker's own interface leave alone
breakerFrame == <<pipelineVars, threadVars, encodeVars, restVars>>

\* what no step of the request pipeline changes
pipelineFrame == <<auth_required, auth_provider, threadVars, encodeVars, restVars>>

(***************************************************************************)
(* CircuitState and CircuitStats (circuit_breaker.py 23-37).               *)
(***************************************************************************)
CLOSED == "closed"
OPEN == "open"
HALF_OPEN == "half_open"
CircuitState == {CLOSED, OPEN, HALF_OPEN}

\* Python's None in the Optional[float] fields; time.time() is never negative.
None == -1

CircuitStats ==
    [state |-> CLOSED,
     failure_count |-> 0,
     last_failure_time |-> None,
     opened_at |-> None,
     success_count_in_half_open |-> 0]

\* Python truthiness of an Optional[float]: None and 0.0 are both falsy.
Falsy(x) == x = None \/ x = 0

\* CircuitBreaker._get_or_create_circuit, on the map.
get_or_create_circuit(cs, service_name) ==
    IF service_name \in DOMAIN cs
    THEN cs
    ELSE cs @@ (service_name :> CircuitStats)

\* Mutant: the reset is attempted as soon as opened_at is set, whatever the time.
should_attempt_reset_NoTimeout(circuit, t) ==
    ~Falsy(circuit.opened_at)

\* CircuitBreaker._should_attempt_reset, t the value of time.time().
should_attempt_reset(circuit, t) ==
    IF Falsy(circuit.opened_at)
    THEN FALSE
    ELSE (t - circuit.opened_at) >= reset_timeout

\* Mutant: an OPEN circuit whose timeout has elapsed is closed at once.
is_call_allowed_body_ClosesOpen(circuit, t) ==
    IF circuit.state = OPEN /\ should_attempt_reset(circuit, t)
    THEN [ok |-> TRUE, circuit |-> [circuit EXCEPT !.state = CLOSED]]
    ELSE [ok |-> circuit.state # OPEN, circuit |-> circuit]

\* Mutant: an OPEN circuit rejects whatever the time; no trial is ever admitted.
is_call_allowed_body_NeverTrials(circuit, t) ==
    [ok |-> circuit.state # OPEN, circuit |-> circuit]

\* The locked body of is_call_allowed on one record: the result and the record left.
is_call_allowed_body(circuit, t) ==
    IF circuit.state = CLOSED
    THEN [ok |-> TRUE, circuit |-> circuit]
    ELSE IF circuit.state = OPEN
    THEN IF should_attempt_reset(circuit, t)
         THEN [ok |-> TRUE,
               circuit |-> [circuit EXCEPT !.state = HALF_OPEN,
                                           !.success_count_in_half_open = 0]]
         ELSE [ok |-> FALSE, circuit |-> circuit]
    ELSE [ok |-> TRUE, circuit |-> circuit]

\* Mutant: the trial count must exceed half_open_max_calls to close the circuit.
record_success_body_OffByOne(circuit) ==
    IF circuit.state = HALF_OPEN
    THEN LET n == circuit.success_count_in_half_open + 1
         IN  IF n > half_open_max_calls
             THEN [circuit EXCEPT !.state = CLOSED,
                                  !.failure_count = 0,
                                  !.success_count_in_half_open = 0]
             ELSE [circuit EXCEPT !.success_count_in_half_open = n]
    ELSE IF circuit.state = CLOSED
    THEN [circuit EXCEPT !.failure_count = 0]
    ELSE circuit

\* Mutant: a success resets failure_count in every state but HALF_OPEN.
record_success_body_ResetsInOpen(circuit) ==
    IF circuit.state = HALF_OPEN
    THEN LET n == circuit.success_count_in_half_open + 1
         IN  IF n >= half_open_max_calls
             THEN [circuit EXCEPT !.state = CLOSED,
                                  !.failure_count = 0,
                                  !.success_count_in_half_open = 0]
             ELSE [circuit EXCEPT !.success_count_in_half_open = n]
    ELSE [circuit EXCEPT !.failure_count = 0]

\* Mutant: a success on a CLOSED circuit leaves failure_count as it is.
record_success_body_KeepsCount(circuit) ==
    IF circuit.state = HALF_OPEN
    THEN LET n == circuit.success_count_in_half_open + 1
         IN  IF n >= half_open_max_calls
             THEN [circuit EXCEPT !.state = CLOSED,
                                  !.failure_count = 0,
                                  !.success_count_in_half_open = 0]
             ELSE [circuit EXCEPT !.success_count_in_half_open = n]
    ELSE circuit

\* Mutant: the closing success leaves failure_count as it is.
record_success_body_ClosesWithCount(circuit) ==
    IF circuit.state = HALF_OPEN
    THEN LET n == circuit.success_count_in_half_open + 1
         IN  IF n >= half_open_max_calls
             THEN [circuit EXCEPT !.state = CLOSED,
                                  !.success_count_in_half_open = 0]
             ELSE [circuit EXCEPT !.success_count_in_half_open = n]
    ELSE IF circuit.state = CLOSED
    THEN [circuit EXCEPT !.failure_count = 0]
    ELSE circuit

\* The locked body of record_success on one record.
record_success_body(circuit) ==
    IF circuit.state = HALF_OPEN
    THEN LET n == circuit.success_count_in_half_open + 1
         IN  IF n >= half_open_max_calls
             THEN [circuit EXCEPT !.state = CLOSED,
                                  !.failure_count = 0,
                                  !.success_count_in_half_open = 0]
             ELSE [circuit EXCEPT !.success_count_in_half_open = n]
    ELSE IF circuit.state = CLOSED
    THEN IF circuit.failure_count > 0
         THEN [circuit EXCEPT !.failure_count = 0]
         ELSE circuit
    ELSE circuit

\* Mutant: the circuit opens only when failure_count exceeds fail_threshold.
record_failure_body_OffByOne(circuit, t1, t2) ==
    LET c1 == [circuit EXCEPT !.failure_count = circuit.failure_count + 1,
                              !.last_failure_time = t1]
    IN  IF c1.state = HALF_OPEN
        THEN [c1 EXCEPT !.state = OPEN,
                        !.opened_at = t2,
                        !.success_count_in_half_open = 0]
        ELSE IF c1.state = CLOSED /\ c1.failure_count > fail_threshold
        THEN [c1 EXCEPT !.state = OPEN, !.opened_at = t2]
        ELSE c1

\* Mutant: a failed trial reopens the circuit without restarting the timeout.
record_failure_body_KeepsOpenedAt(circuit, t1, t2) ==
    LET c1 == [circuit EXCEPT !.failure_count = circuit.failure_count + 1,
                              !.last_failure_time = t1]
    IN  IF c1.state = HALF_OPEN
        THEN [c1 EXCEPT !.state = OPEN,
                        !.success_count_in_half_open = 0]
        ELSE IF c1.state = CLOSED /\ c1.failure_count >= fail_threshold
        THEN [c1 EXCEPT !.state = OPEN, !.opened_at = t2]
        ELSE c1

\* Mutant: a failed trial reopens the circuit without clearing the trial count.
record_failure_body_KeepsTrialCount(circuit, t1, t2) ==
    LET c1 == [circuit EXCEPT !.failure_count = circuit.failure_count + 1,
                              !.last_failure_time = t1]
    IN  IF c1.state = HALF_OPEN
        THEN [c1 EXCEPT !.state = OPEN, !.opened_at = t2]
        ELSE IF c1.state = CLOSED /\ c1.failure_count >= fail_threshold
        THEN [c1 EXCEPT !.state = OPEN, !.opened_at = t2]
        ELSE c1

\* Mutant: a failure on an OPEN circuit sets opened_at again.
record_failure_body_RestartsOpen(circuit, t1, t2) ==
    LET c1 == [circuit EXCEPT !.failure_count = circuit.failure_count + 1,
                              !.last_failure_time = t1]
    IN  IF c1.state = HALF_OPEN
        THEN [c1 EXCEPT !.state = OPEN,
                        !.opened_at = t2,
                        !.success_count_in_half_open = 0]
        ELSE IF c1.state = CLOSED
        THEN IF c1.failure_count >= fail_threshold
             THEN [c1 EXCEPT !.state = OPEN, !.opened_at = t2]
             ELSE c1
        ELSE [c1 EXCEPT !.opened_at = t2]

\* The locked body of record_failure on one record; t1 and t2 are the two
\* successive readings of time.time() (lines 184 and 192/203).
record_failure_body(circuit, t1, t2) ==
    LET c1 == [circuit EXCEPT !.failure_count = circuit.failure_count + 1,
                              !.last_failure_time = t1]
    IN  IF c1.state = HALF_OPEN
        THEN [c1 EXCEPT !.state = OPEN,
                        !.opened_at = t2,
                        !.success_count_in_half_open = 0]
        ELSE IF c1.state = CLOSED
        THEN IF c1.failure_count >= fail_threshold
             THEN [c1 EXCEPT !.state = OPEN, !.opened_at = t2]
             ELSE c1
        ELSE c1

(***************************************************************************)
(* History bookkeeping (not program state).                                *)
(***************************************************************************)
NoCall == [op |-> "none", svc |-> "none", val |-> "none", pre |-> CircuitStats]

\* the call just made: its name, its argument, its result and the record it found
Call(op, svc, val, pre) ==
    [op |-> op, svc |-> svc, val |-> val, pre |-> pre]

\* calls admitted since the record became HALF_OPEN
AdmittedAfter(old, new, ok, n) ==
    IF new.state # HALF_OPEN THEN 0
    ELSE IF old.state # HALF_OPEN THEN 1
    ELSE IF ok THEN n + 1 ELSE n

(***************************************************************************)
(* Initial state: CircuitBreaker.__init__ (circuit_breaker.py 64-94).      *)
(***************************************************************************)
BreakerInit ==
    /\ now = 1
    /\ \E cfg \in Configurations :
          /\ enabled = cfg.enabled
          /\ fail_threshold = cfg.fail_threshold
          /\ reset_timeout = cfg.reset_timeout
          /\ half_open_max_calls = cfg.half_open_max_calls
    /\ circuits = <<>>
    /\ last = NoCall
    /\ streak = [s \in Services |-> 0]
    /\ admitted = [s \in Services |-> 0]

\* The clock advances between calls; `last` describes a call only until then.
Tick ==
    /\ now < MaxTime
    /\ now' = now + 1
    /\ last' = NoCall
    /\ UNCHANGED <<enabled, fail_threshold, reset_timeout, half_open_max_calls,
                   circuits, streak, admitted, breakerFrame>>

config == <<enabled, fail_threshold, reset_timeout, half_open_max_calls>>

\* CircuitBreaker.is_call_allowed
is_call_allowed(service_name) ==
    /\ admitted[service_name] < MaxAdmitted
    /\ IF ~enabled
       THEN /\ last' = Call("is_call_allowed", service_name, TRUE, CircuitStats)
            /\ UNCHANGED <<circuits, admitted>>
       ELSE LET cs == get_or_create_circuit(circuits, service_name)
                r == is_call_allowed_body(cs[service_name], now)
            IN  /\ circuits' = [cs EXCEPT ![service_name] = r.circuit]
                /\ last' = Call("is_call_allowed", service_name, r.ok, cs[service_name])
                /\ admitted' = [admitted EXCEPT ![service_name] =
                                   AdmittedAfter(cs[service_name], r.circuit, r.ok, @)]
    /\ UNCHANGED <<now, config, streak, breakerFrame>>

\* CircuitBreaker.record_success
record_success(service_name) ==
    /\ IF ~enabled
       THEN /\ last' = Call("record_success", service_name, "none", CircuitStats)
            /\ UNCHANGED <<circuits, admitted, streak>>
       ELSE LET cs == get_or_create_circuit(circuits, service_name)
                c2 == record_success_body(cs[service_name])
            IN  /\ circuits' = [cs EXCEPT ![service_name] = c2]
                /\ last' = Call("record_success", service_name, "none", cs[service_name])
                /\ admitted' = [admitted EXCEPT ![service_name] =
                                   AdmittedAfter(cs[service_name], c2, FALSE, @)]
                /\ streak' = [streak EXCEPT ![service_name] = 0]
    /\ UNCHANGED <<now, config, breakerFrame>>

\* Mutant: record_failure without the test of self.enabled.
record_failure_IgnoresEnabled(service_name) ==
    LET cs == get_or_create_circuit(circuits, service_name)
    IN  /\ cs[service_name].failure_count < MaxFailureCount
        /\ circuits' = [cs EXCEPT ![service_name] = record_failure_body(@, now, now)]
        /\ admitted' = [admitted EXCEPT ![service_name] =
                           AdmittedAfter(cs[service_name], circuits'[service_name], FALSE, @)]
        /\ last' = Call("record_failure", service_name, "none", cs[service_name])
        /\ streak' = [streak EXCEPT ![service_name] =
                         IF cs[service_name].state = CLOSED THEN @ + 1 ELSE 0]
        /\ UNCHANGED <<now, config, breakerFrame>>

\* CircuitBreaker.record_failure
record_failure(service_name) ==
    IF ~enabled
    THEN /\ last' = Call("record_failure", service_name, "none", CircuitStats)
         /\ UNCHANGED <<now, config, circuits, admitted, streak, breakerFrame>>
    ELSE LET cs == get_or_create_circuit(circuits, service_name)
         IN  /\ cs[service_name].failure_count < MaxFailureCount
             /\ \E t2 \in {now, now + 1} :
                  /\ t2 <= MaxTime
                  /\ LET c2 == record_failure_body(cs[service_name], now, t2)
                     IN  /\ circuits' = [cs EXCEPT ![service_name] = c2]
                         /\ admitted' = [admitted EXCEPT ![service_name] =
                                            AdmittedAfter(cs[service_name], c2, FALSE, @)]
                  /\ now' = t2
             /\ last' = Call("record_failure", service_name, "none", cs[service_name])
             /\ streak' = [streak EXCEPT ![service_name] =
                              IF cs[service_name].state = CLOSED THEN @ + 1 ELSE 0]
             /\ UNCHANGED <<config, breakerFrame>>

\* CircuitBreaker.get_state
get_state(service_name) ==
    LET cs == get_or_create_circuit(circuits, service_name)
    IN  /\ circuits' = cs
        /\ last' = Call("get_state", service_name, cs[service_name].state, cs[service_name])
        /\ UNCHANGED <<now, config, streak, admitted, breakerFrame>>

\* CircuitBreaker.get_stats
get_stats(service_name) ==
    LET cs == get_or_create_circuit(circuits, service_name)
        c == cs[service_name]
    IN  /\ circuits' = cs
        /\ last' = Call("get_stats", service_name,
                        <<c.state, c.failure_count, c.last_failure_time, c.opened_at>>,
                        c)
        /\ UNCHANGED <<now, config, streak, admitted, breakerFrame>>


(***************************************************************************)
(* Concurrent callers of one CircuitBreaker.  Each call is taken apart     *)
(* into the reads and writes of its `with self._lock:` block, so that an   *)
(* interleaving of two blocks would show; `serial` is what the completed   *)
(* calls give when applied whole, one after another, in the order they     *)
(* complete.                                                               *)
(***************************************************************************)
Callers == {"t1", "t2"}

BreakerCalls == {"is_call_allowed", "record_success", "record_failure"}

\* the backend both callers make their calls on
ContendedService == "svc-x"

\* a caller outside any call; tmp, t1, t2 and ok are the locals of a call
IdleCaller ==
    [pc |-> "idle", op |-> "none", svc |-> "none", tmp |-> 0, t1 |-> 0, t2 |-> 0, ok |-> TRUE]

ThreadsIdle ==
    /\ threads = [t \in Callers |-> IdleCaller]
    /\ lock = {}
    /\ serial = <<>>

\* Mutant: the lock never makes a caller wait.
Lock_free_Always(l) == TRUE

\* threading.Lock (circuit_breaker.py 87): it can be taken when nobody holds it;
\* l is the set of its holders.
Lock_free(l) == l = {}

\* A caller starts a call: the test of self.enabled before the lock.
begin_call(t) ==
    /\ threads[t].pc = "idle"
    /\ \E op \in BreakerCalls, s \in {ContendedService} :
          /\ (op = "record_failure" /\ s \in DOMAIN circuits) =>
                 circuits[s].failure_count < MaxFailureCount
          /\ threads' = [threads EXCEPT ![t] =
                            [IdleCaller EXCEPT !.pc = IF enabled THEN "acquire" ELSE "return",
                                               !.op = op, !.svc = s]]
    /\ UNCHANGED <<breakerVars, lock, serial, pipelineVars, encodeVars, restVars>>

\* with self._lock: entry
acquire(t) ==
    /\ threads[t].pc = "acquire"
    /\ Lock_free(lock)
    /\ lock' = lock \cup {t}
    /\ threads' = [threads EXCEPT ![t].pc = "enter"]
    /\ UNCHANGED <<breakerVars, serial, pipelineVars, encodeVars, restVars>>

\* circuit = self._get_or_create_circuit(service_name)
enter(t) ==
    /\ threads[t].pc = "enter"
    /\ circuits' = get_or_create_circuit(circuits, threads[t].svc)
    /\ threads' = [threads EXCEPT ![t].pc = "step1"]
    /\ UNCHANGED <<now, config, last, streak, admitted, lock, serial, pipelineVars, encodeVars, restVars>>

\* is_call_allowed, lines 112-137, statement by statement
is_call_allowed_step(t) ==
    /\ threads[t].op = "is_call_allowed"
    /\ LET s == threads[t].svc
           c == circuits[s]
       IN  \/ /\ threads[t].pc = "step1"
              /\ IF c.state = OPEN /\ should_attempt_reset(c, now)
                 THEN /\ circuits' = [circuits EXCEPT ![s].state = HALF_OPEN]
                      /\ threads' = [threads EXCEPT ![t].pc = "step2", ![t].t1 = now]
                 ELSE /\ circuits' = circuits
                      /\ threads' = [threads EXCEPT ![t].pc = "release", ![t].t1 = now,
                                                    ![t].ok = (c.state # OPEN)]
           \/ /\ threads[t].pc = "step2"
              /\ circuits' = [circuits EXCEPT ![s].success_count_in_half_open = 0]
              /\ threads' = [threads EXCEPT ![t].pc = "release", ![t].ok = TRUE]
    /\ UNCHANGED <<now, config, last, streak, admitted, lock, serial, pipelineVars, encodeVars, restVars>>

\* record_success, lines 150-169, statement by statement
record_success_step(t) ==
    /\ threads[t].op = "record_success"
    /\ LET s == threads[t].svc
           c == circuits[s]
       IN  \/ /\ threads[t].pc = "step1"
              /\ IF c.state = HALF_OPEN
                 THEN /\ circuits' = [circuits EXCEPT ![s].success_count_in_half_open = @ + 1]
                      /\ threads' = [threads EXCEPT ![t].pc = "step2"]
                 ELSE /\ circuits' = IF c.state = CLOSED /\ c.failure_count > 0
                                     THEN [circuits EXCEPT ![s].failure_count = 0]
                                     ELSE circuits
                      /\ threads' = [threads EXCEPT ![t].pc = "release"]
           \/ /\ threads[t].pc = "step2"
              /\ IF c.success_count_in_half_open >= half_open_max_calls
                 THEN /\ circuits' = [circuits EXCEPT ![s].state = CLOSED]
                      /\ threads' = [threads EXCEPT ![t].pc = "step3"]
                 ELSE /\ circuits' = circuits
                      /\ threads' = [threads EXCEPT ![t].pc = "release"]
           \/ /\ threads[t].pc = "step3"
              /\ circuits' = [circuits EXCEPT ![s].failure_count = 0,
                                              ![s].success_count_in_half_open = 0]
              /\ threads' = [threads EXCEPT ![t].pc = "release"]
    /\ UNCHANGED <<now, config, last, streak, admitted, lock, serial, pipelineVars, encodeVars, restVars>>

\* record_failure, lines 182-208, statement by statement; tmp is the value
\* read by `circuit.failure_count += 1`, then the branch taken
record_failure_step(t) ==
    /\ threads[t].op = "record_failure"
    /\ LET s == threads[t].svc
           c == circuits[s]
       IN  \/ /\ threads[t].pc = "step1"
              /\ circuits' = circuits
              /\ threads' = [threads EXCEPT ![t].pc = "step2", ![t].tmp = c.failure_count]
           \/ /\ threads[t].pc = "step2"
              /\ circuits' = [circuits EXCEPT ![s].failure_count = threads[t].tmp + 1,
                                              ![s].last_failure_time = now]
              /\ threads' = [threads EXCEPT ![t].pc = "step3", ![t].tmp = 0,
                                            ![t].t1 = now, ![t].t2 = now]
           \/ /\ threads[t].pc = "step3"
              /\ IF c.state = HALF_OPEN
                 THEN /\ circuits' = [circuits EXCEPT ![s].state = OPEN]
                      /\ threads' = [threads EXCEPT ![t].pc = "step4", ![t].tmp = 1]
                 ELSE IF c.state = CLOSED /\ c.failure_count >= fail_threshold
                 THEN /\ circuits' = [circuits EXCEPT ![s].state = OPEN]
                      /\ threads' = [threads EXCEPT ![t].pc = "step4"]
                 ELSE /\ circuits' = circuits
                      /\ threads' = [threads EXCEPT ![t].pc = "release"]
           \/ /\ threads[t].pc = "step4"
              /\ circuits' = [circuits EXCEPT
                                 ![s].opened_at = now,
                                 ![s].success_count_in_half_open =
                                     IF threads[t].tmp = 1 THEN 0 ELSE @]
              /\ threads' = [threads EXCEPT ![t].pc = "release", ![t].tmp = 0, ![t].t2 = now]
    /\ UNCHANGED <<now, config, last, streak, admitted, lock, serial, pipelineVars, encodeVars, restVars>>

\* a completed call applied whole to a record
apply_call(op, circuit, t1, t2) ==
    IF op = "is_call_allowed" THEN is_call_allowed_body(circuit, t1).circuit
    ELSE IF op = "record_success" THEN record_success_body(circuit)
    ELSE record_failure_body(circuit, t1, t2)

\* with self._lock: exit, and the call returns
release(t) ==
    /\ threads[t].pc = "release"
    /\ lock' = lock \ {t}
    /\ LET s == threads[t].svc
           ss == get_or_create_circuit(serial, s)
       IN  serial' = [ss EXCEPT ![s] = apply_call(threads[t].op, @, threads[t].t1, threads[t].t2)]
    /\ threads' = [threads EXCEPT ![t] = IdleCaller]
    /\ UNCHANGED <<breakerVars, pipelineVars, encodeVars, restVars>>

\* a call on a disabled breaker returns at once
return_disabled(t) ==
    /\ threads[t].pc = "return"
    /\ threads' = [threads EXCEPT ![t] = IdleCaller]
    /\ UNCHANGED <<breakerVars, lock, serial, pipelineVars, encodeVars, restVars>>

\* time passes while the callers run
ThreadTick ==
    /\ now < MaxTime
    /\ now' = now + 1
    /\ UNCHANGED <<config, circuits, last, streak, admitted, threadVars, pipelineVars, encodeVars, restVars>>

ConcurrentNext ==
    \/ ThreadTick
    \/ \E t \in Callers : begin_call(t)
    \/ \E t \in Callers : acquire(t)
    \/ \E t \in Callers : enter(t)
    \/ \E t \in Callers : is_call_allowed_step(t)
    \/ \E t \in Callers : record_success_step(t)
    \/ \E t \in Callers : record_failure_step(t)
    \/ \E t \in Callers : release(t)
    \/ \E t \in Callers : return_disabled(t)

(***************************************************************************)
(* Text.  A string is the sequence of its characters, so that str.lower()  *)
(* and str.startswith() are computed; a header value is the sequence of    *)
(* its whitespace-separated words.                                         *)
(***************************************************************************)
UpperCase == <<"A", "B", "C", "D", "E", "F", "G", "H", "I", "J", "K", "L", "M",
               "N", "O", "P", "Q", "R", "S", "T", "U", "V", "W", "X", "Y", "Z">>
LowerCase == <<"a", "b", "c", "d", "e", "f", "g", "h", "i", "j", "k", "l", "m",
               "n", "o", "p", "q", "r", "s", "t", "u", "v", "w", "x", "y", "z">>

LowerChar(ch) ==
    IF \E i \in 1..Len(UpperCase) : UpperCase[i] = ch
    THEN LowerCase[CHOOSE i \in 1..Len(UpperCase) : UpperCase[i] = ch]
    ELSE ch

\* str.lower()
lower(str) == [i \in 1..Len(str) |-> LowerChar(str[i])]

\* str.startswith(prefix)
startswith(str, prefix) ==
    /\ Len(str) >= Len(prefix)
    /\ SubSeq(str, 1, Len(prefix)) = prefix

(***************************************************************************)
(* Python dict: an insertion-ordered sequence of <<key, value>> with       *)
(* distinct keys.                                                          *)
(***************************************************************************)
dict_keys(d) == {d[i][1] : i \in 1..Len(d)}

dict_get(d, k) == d[CHOOSE i \in 1..Len(d) : d[i][1] = k][2]

\* d[k] = v
dict_set(d, k, v) ==
    IF k \in dict_keys(d)
    THEN [i \in 1..Len(d) |-> IF d[i][1] = k THEN <<k, v>> ELSE d[i]]
    ELSE Append(d, <<k, v>>)

\* d.pop(k, None)
dict_pop(d, k) == SelectSeq(d, LAMBDA kv : kv[1] # k)

\* d.update(e)
RECURSIVE dict_update(_, _)
dict_update(d, e) ==
    IF e = <<>> THEN d
    ELSE dict_update(dict_set(d, e[1][1], e[1][2]), Tail(e))

(***************************************************************************)
(* Header names and paths used by the code and by the callers modelled.    *)
(***************************************************************************)
H_X_User_ID == <<"X", "-", "U", "s", "e", "r", "-", "I", "D">>
H_X_User_Email == <<"X", "-", "U", "s", "e", "r", "-", "E", "m", "a", "i", "l">>
H_X_User_Roles == <<"X", "-", "U", "s", "e", "r", "-", "R", "o", "l", "e", "s">>
H_X_Email_Verified == <<"X", "-", "E", "m", "a", "i", "l", "-", "V", "e", "r", "i", "f", "i", "e", "d">>
H_X_USER_HACK == <<"X", "-", "U", "S", "E", "R", "-", "H", "A", "C", "K">>
H_Accept == <<"A", "c", "c", "e", "p", "t">>
H_Connection == <<"C", "o", "n", "n", "e", "c", "t", "i", "o", "n">>
H_Authorization == <<"A", "u", "t", "h", "o", "r", "i", "z", "a", "t", "i", "o", "n">>
X_USER_PREFIX == <<"x", "-", "u", "s", "e", "r", "-">>

P_auth_login == <<"/", "a", "p", "i", "/", "v", "1", "/", "a", "u", "t", "h", "/", "l", "o", "g", "i", "n">>
P_auth_me == <<"/", "a", "p", "i", "/", "v", "1", "/", "a", "u", "t", "h", "/", "m", "e">>
P_cases == <<"/", "a", "p", "i", "/", "v", "1", "/", "c", "a", "s", "e", "s">>
P_auth_prefix == <<"/", "a", "p", "i", "/", "v", "1", "/", "a", "u", "t", "h", "/">>

\* AuthMiddleware._is_public_endpoint: public_paths (middleware.py 168-175)
public_paths ==
    << <<"/", "h", "e", "a", "l", "t", "h">>,
       <<"/", "a", "p", "i", "/", "v", "1", "/", "a", "u", "t", "h", "/", "l", "o", "g", "i", "n">>,
       <<"/", "a", "p", "i", "/", "v", "1", "/", "a", "u", "t", "h", "/", "d", "e", "v", "-", "l", "o", "g", "i", "n">>,
       <<"/", "a", "p", "i", "/", "v", "1", "/", "a", "u", "t", "h", "/", "r", "e", "g", "i", "s", "t", "e", "r">>,
       <<"/", "a", "p", "i", "/", "v", "1", "/", "a", "u", "t", "h", "/", "d", "e", "v", "-", "r", "e", "g", "i", "s", "t", "e", "r">>,
       <<"/", "a", "p", "i", "/", "v", "1", "/", "a", "u", "t", "h", "/", "r", "e", "f", "r", "e", "s", "h">> >>

\* proxy_request: hop_by_hop_headers (routes.py 150-160)
hop_by_hop_headers ==
    << <<"c", "o", "n", "n", "e", "c", "t", "i", "o", "n">>,
       <<"k", "e", "e", "p", "-", "a", "l", "i", "v", "e">>,
       <<"p", "r", "o", "x", "y", "-", "a", "u", "t", "h", "e", "n", "t", "i", "c", "a", "t", "e">>,
       <<"p", "r", "o", "x", "y", "-", "a", "u", "t", "h", "o", "r", "i", "z", "a", "t", "i", "o", "n">>,
       <<"t", "e">>,
       <<"t", "r", "a", "i", "l", "e", "r", "s">>,
       <<"t", "r", "a", "n", "s", "f", "e", "r", "-", "e", "n", "c", "o", "d", "i", "n", "g">>,
       <<"u", "p", "g", "r", "a", "d", "e">>,
       <<"h", "o", "s", "t">> >>

(***************************************************************************)
(* What callers send.                                                      *)
(***************************************************************************)
ClientHeaderNames ==
    {H_X_User_ID, H_X_USER_HACK, H_X_Email_Verified, H_Accept, H_Connection}

Attacker == <<"attacker">>

ClientHeaderLines == {<<n, Attacker>> : n \in ClientHeaderNames}

RECURSIVE SeqsUpTo(_, _)
SeqsUpTo(S, n) ==
    IF n = 0 THEN {<<>>}
    ELSE SeqsUpTo(S, n - 1) \cup
         {Append(q, x) : q \in {r \in SeqsUpTo(S, n - 1) : Len(r) = n - 1}, x \in S}

\* values of the Authorization header; <<>> stands for no such header
AuthorizationValues ==
    {<<>>, <<"Bearer", "tok-u1">>, <<"BEARER", "tok-u2">>, <<"Bearer", "tok-bad">>,
     <<"Basic", "tok-u1">>, <<"Bearer">>}

ClientPaths == {P_auth_login, P_auth_me, P_cases}

(***************************************************************************)
(* UserContext (user_context.py) and the auth provider interface.          *)
(***************************************************************************)
UserContext(user_id, email, roles, email_verified) ==
    [user_id |-> user_id, email |-> email, roles |-> roles, email_verified |-> email_verified]

NoUser == UserContext("", "", <<>>, FALSE)

\* json.dumps of a list of strings, as the words of the text: ["a", "b"]
RECURSIVE json_dumps_items(_)
json_dumps_items(roles) ==
    IF roles = <<>> THEN <<>>
    ELSE IF Len(roles) = 1 THEN <<"\"", roles[1], "\"">>
    ELSE <<"\"", roles[1], "\"", ",">> \o json_dumps_items(Tail(roles))

json_dumps(roles) == <<"[">> \o json_dumps_items(roles) \o <<"]">>

\* Mutant: str(bool) without lower()
str_lower_bool_NotLowered(b) == IF b THEN "True" ELSE "False"

\* str(bool).lower()
str_lower_bool(b) == IF b THEN "true" ELSE "false"

\* UserContext.to_headers
to_headers(uc) ==
    << <<H_X_User_ID, <<uc.user_id>>>>,
       <<H_X_User_Email, <<uc.email>>>>,
       <<H_X_User_Roles, json_dumps(uc.roles)>>,
       <<H_X_Email_Verified, <<str_lower_bool(uc.email_verified)>>>> >>

(***************************************************************************)
(* FMAuthProvider (fm_auth_provider.py) and SupabaseProvider               *)
(* (supabase_provider.py).  An exception is the name of its class.         *)
(***************************************************************************)
JwtIssuer == "https://auth.faultmaven.ai"
JwtAudience == "faultmaven-api"

\* The credentials callers present: whether the signature verifies with the
\* service's key, whether exp has passed, and the claims (a dict).
jwt_of(token) ==
    CASE token = "tok-u1" ->
           [signed |-> TRUE, expired |-> FALSE,
            claims |-> << <<"iss", JwtIssuer>>, <<"aud", JwtAudience>>, <<"sub", "u1">>,
                          <<"email", "u1@example.com">>, <<"roles", <<"user">>>>,
                          <<"email_verified", TRUE>> >>]
      [] token = "tok-u2" ->
           [signed |-> TRUE, expired |-> FALSE,
            claims |-> << <<"iss", JwtIssuer>>, <<"aud", JwtAudience>>, <<"sub", "u2">>,
                          <<"roles", <<"user", "admin">>>> >>]
      [] token = "tok-expired" ->
           [signed |-> TRUE, expired |-> TRUE,
            claims |-> << <<"iss", JwtIssuer>>, <<"aud", JwtAudience>>, <<"sub", "u1">> >>]
      [] token = "tok-iss" ->
           [signed |-> TRUE, expired |-> FALSE,
            claims |-> << <<"iss", "https://evil.example">>, <<"aud", JwtAudience>>,
                          <<"sub", "u1">> >>]
      [] token = "tok-aud" ->
           [signed |-> TRUE, expired |-> FALSE,
            claims |-> << <<"iss", JwtIssuer>>, <<"aud", "other-api">>, <<"sub", "u1">> >>]
      [] token = "tok-nosub" ->
           [signed |-> TRUE, expired |-> FALSE,
            claims |-> << <<"iss", JwtIssuer>>, <<"aud", JwtAudience>>,
                          <<"email", "u1@example.com">> >>]
      [] OTHER ->
           [signed |-> FALSE, expired |-> FALSE, claims |-> <<>>]

\* claims.get(key, default)
claims_get(claims, key, default) ==
    IF key \in dict_keys(claims) THEN dict_get(claims, key) ELSE default

\* jose.jwt.decode(token, key, algorithms, audience, issuer): the claims, or
\* the exception raised (JWTClaimsError is a JWTError).
jwt_decode(token, audience, issuer) ==
    LET t == jwt_of(token)
    IN  IF ~t.signed THEN [raised |-> "JWTError", claims |-> <<>>]
        ELSE IF t.expired THEN [raised |-> "ExpiredSignatureError", claims |-> <<>>]
        ELSE IF claims_get(t.claims, "aud", "") # audience
        THEN [raised |-> "JWTClaimsError", claims |-> <<>>]
        ELSE IF claims_get(t.claims, "iss", "") # issuer
        THEN [raised |-> "JWTClaimsError", claims |-> <<>>]
        ELSE [raised |-> "none", claims |-> t.claims]

\* what the JWKS endpoint can answer: a key set, a key set without keys, an HTTP error
JwksAnswers == {"keys", "no_keys", "http_error"}

\* FMAuthProvider._get_public_key on a cache miss (lines 126-158): both
\* except clauses raise ValueError.
get_public_key(answer) ==
    IF answer = "http_error" THEN [raised |-> "ValueError"]
    ELSE IF answer = "no_keys" THEN [raised |-> "ValueError"]
    ELSE [raised |-> "none"]

\* the subclasses of jose.exceptions.JWTError
JWTErrors == {"JWTError", "JWTClaimsError", "ExpiredSignatureError"}

\* FMAuthProvider.validate_token, the try block (lines 66-93)
validate_token_try(token) ==
    LET key == get_public_key(jwks)
        decoded == jwt_decode(token, JwtAudience, JwtIssuer)
    IN  IF key.raised # "none" THEN [raised |-> key.raised, user |-> NoUser]
        ELSE IF decoded.raised # "none" THEN [raised |-> decoded.raised, user |-> NoUser]
        ELSE IF "sub" \notin dict_keys(decoded.claims)
        THEN [raised |-> "KeyError", user |-> NoUser]
        ELSE [raised |-> "none",
              user |-> UserContext(dict_get(decoded.claims, "sub"),
                                   claims_get(decoded.claims, "email", ""),
                                   claims_get(decoded.claims, "roles", <<>>),
                                   claims_get(decoded.claims, "email_verified", FALSE))]

\* Mutant: only the two jose exceptions are turned into ValueError.
validate_token_except_NoCatchAll(exc) ==
    IF exc \in JWTErrors THEN "ValueError" ELSE exc

\* FMAuthProvider.validate_token, the except clauses (lines 95-105): what is
\* raised for an exception of the try block.
validate_token_except(exc) ==
    IF exc = "ExpiredSignatureError" THEN "ValueError"
    ELSE IF exc \in JWTErrors THEN "ValueError"
    ELSE "ValueError"

FMAuthProvider_validate_token(token) ==
    LET r == validate_token_try(token)
    IN  IF r.raised = "none"
        THEN [ok |-> TRUE, user |-> r.user, raised |-> "none"]
        ELSE [ok |-> FALSE, user |-> NoUser, raised |-> validate_token_except(r.raised)]

\* SupabaseProvider.validate_token
SupabaseProvider_validate_token(token) ==
    [ok |-> FALSE, user |-> NoUser, raised |-> "NotImplementedError"]

\* main.py _create_auth_provider: the provider made, or the exception raised
PrimaryAuthProviders == {"fm-auth-service", "supabase", "auth0", "other"}

create_auth_provider(primary_auth_provider) ==
    IF primary_auth_provider = "fm-auth-service"
    THEN [raised |-> "none", provider |-> "fm-auth-service"]
    ELSE IF primary_auth_provider = "supabase"
    THEN [raised |-> "none", provider |-> "supabase"]
    ELSE IF primary_auth_provider = "auth0"
    THEN [raised |-> "NotImplementedError", provider |-> "none"]
    ELSE [raised |-> "ValueError", provider |-> "none"]

\* IAuthProvider.validate_token of the provider in use: the UserContext of a
\* valid token, or the exception raised.
validate_token(token) ==
    IF auth_provider = "supabase"
    THEN SupabaseProvider_validate_token(token)
    ELSE FMAuthProvider_validate_token(token)

\* AuthMiddleware._create_anonymous_user with the default settings (settings.py 129-140)
create_anonymous_user ==
    UserContext("anonymous_admin", "admin@example.com", <<"admin">>, TRUE)

\* Mutant: only the first of the public paths is public.
is_public_endpoint_HealthOnly(path) ==
    startswith(path, public_paths[1])

\* AuthMiddleware._is_public_endpoint
is_public_endpoint(path) ==
    \E i \in 1..Len(public_paths) : startswith(path, public_paths[i])

\* str.lower() on the scheme words callers send
word_lower(w) ==
    CASE w \in {"Bearer", "BEARER", "bearer"} -> "bearer"
      [] w \in {"Basic", "basic"} -> "basic"
      [] OTHER -> w

\* AuthMiddleware._extract_bearer_token; parts is auth_header.split()
extract_bearer_token(parts) ==
    IF Len(parts) # 2 THEN [ok |-> FALSE, token |-> ""]
    ELSE IF word_lower(parts[1]) # "bearer" THEN [ok |-> FALSE, token |-> ""]
    ELSE [ok |-> TRUE, token |-> parts[2]]

(***************************************************************************)
(* The Request object (Starlette) as the handlers use it.                  *)
(***************************************************************************)
\* The ASGI server hands header names over in lower case.
asgi_headers(lines) == [i \in 1..Len(lines) |-> <<lower(lines[i][1]), lines[i][2]>>]

\* request.headers.get(name): the first line with that name, compared in lower case
headers_has(headers, name) == \E i \in 1..Len(headers) : headers[i][1] = lower(name)

headers_get(headers, name) ==
    LET first == CHOOSE i \in 1..Len(headers) :
                     /\ headers[i][1] = lower(name)
                     /\ \A j \in 1..(i - 1) : headers[j][1] # lower(name)
    IN  headers[first][2]

\* dict(request.headers): every name once, with the value of its first line
RECURSIVE dict_of_headers(_, _)
dict_of_headers(headers, i) ==
    IF i = 0 THEN <<>>
    ELSE LET d == dict_of_headers(headers, i - 1)
             k == headers[i][1]
         IN  IF k \in dict_keys(d) THEN d ELSE Append(d, <<k, headers[i][2]>>)

\* AuthMiddleware._strip_client_user_headers: it lists the x-user-* names of a
\* copy of the headers for the log and leaves the request as it is.
headers_to_remove(headers) ==
    SelectSeq([i \in 1..Len(headers) |-> headers[i][1]],
              LAMBDA key : startswith(lower(key), X_USER_PREFIX))

strip_client_user_headers(req) == req

(***************************************************************************)
(* Routing (main.py _add_proxy_routes) and backend URLs.                   *)
(***************************************************************************)
\* a base URL, by its parts: http://<host labels joined by dots>:<port>
fm_auth_service_url == [host |-> <<"svc-x">>, port |-> 8000]
fm_case_service_url == [host |-> <<"svc-y", "faultmaven", "svc", "cluster", "local">>, port |-> 8003]

\* routes.py _extract_service_name: the first label of the host name
extract_service_name(backend_url) ==
    IF backend_url.host = <<>> THEN "unknown" ELSE backend_url.host[1]

\* the route a path matches: the backend it is proxied to
route_backend(path) ==
    IF startswith(path, P_auth_prefix) THEN fm_auth_service_url ELSE fm_case_service_url

\* proxy_request, lines 146-167: the header dict handed to httpx
proxy_headers(req) ==
    LET h0 == dict_of_headers(req.headers, Len(req.headers))
        popped[i \in 0..Len(hop_by_hop_headers)] ==
            IF i = 0 THEN h0 ELSE dict_pop(popped[i - 1], hop_by_hop_headers[i])
        h1 == popped[Len(hop_by_hop_headers)]
    IN  IF req.has_user_headers THEN dict_update(h1, req.user_headers) ELSE h1

(***************************************************************************)
(* The pipeline: one request at a time through AuthMiddleware.dispatch     *)
(* and proxy_request.                                                      *)
(***************************************************************************)
NoRequest == [path |-> <<>>, headers |-> <<>>, has_user_headers |-> FALSE, user_headers |-> <<>>]
NoClient == [path |-> <<>>, lines |-> <<>>]
NotForwarded == [sent |-> FALSE, service |-> "none", headers |-> <<>>]
NoResponse == [status |-> 0, error |-> "none"]

ErrorResponse(status, error) == [status |-> status, error |-> error]

NothingEncoded ==
    /\ user_context = NoUser
    /\ encoded = <<>>

\* An exception that leaves the application: the server answers 500 itself.
Unhandled == [status |-> 500, error |-> "unhandled"]

\* no backend call has been made
NoOutcome == [kind |-> "none", status |-> 0, raised |-> "none"]

PipelineIdle ==
    /\ pc = "idle"
    /\ client = NoClient
    /\ request = NoRequest
    /\ forwarded = NotForwarded
    /\ response = NoResponse
    /\ validated = FALSE
    /\ outcome = NoOutcome
    /\ reports = <<>>

\* The middleware create_app adds to the app (main.py 82-95): CORSMiddleware
\* and AuthMiddleware.  RateLimitMiddleware is defined in middleware.py and is
\* added nowhere.
create_app_middleware == {"CORSMiddleware", "AuthMiddleware"}

\* where a request that has come in goes first
first_middleware ==
    IF "RateLimitMiddleware" \in create_app_middleware THEN "rate_limit" ELSE "auth"

\* A caller sends a request; Starlette builds the Request.
Receive ==
    /\ pc = "idle"
    /\ \E path \in ClientPaths, hs \in SeqsUpTo(ClientHeaderLines, MaxHeaders),
          a \in AuthorizationValues :
          LET lines == IF a = <<>> THEN hs ELSE <<<<H_Authorization, a>>>> \o hs
          IN  /\ client' = [path |-> path, lines |-> lines]
              /\ request' = [path |-> path, headers |-> asgi_headers(lines),
                             has_user_headers |-> FALSE, user_headers |-> <<>>]
    /\ pc' = first_middleware
    /\ forwarded' = NotForwarded
    /\ response' = NoResponse
    /\ validated' = FALSE
    /\ outcome' = NoOutcome
    /\ reports' = <<>>
    /\ UNCHANGED <<jwks, pipelineFrame, breakerVars>>

\* Mutant: a request without Authorization is let through as the anonymous
\* user whatever auth_required says.
dispatch_AnonymousAlways(req) ==
    IF is_public_endpoint(req.path)
    THEN [pass |-> TRUE, request |-> req, response |-> NoResponse, validated |-> FALSE]
    ELSE LET present == headers_has(req.headers, H_Authorization)
             auth_header == IF present THEN headers_get(req.headers, H_Authorization) ELSE <<>>
             bearer == extract_bearer_token(auth_header)
             valid == IF bearer.ok THEN validate_token(bearer.token)
                      ELSE [ok |-> FALSE, user |-> NoUser, raised |-> "ValueError"]
             with_user(uc) == [req EXCEPT !.has_user_headers = TRUE,
                                          !.user_headers = dict_update(<<>>, to_headers(uc))]
         IN  IF auth_header = <<>>
             THEN [pass |-> TRUE, request |-> with_user(create_anonymous_user),
                   response |-> NoResponse, validated |-> FALSE]
             ELSE IF ~valid.ok
                  THEN [pass |-> FALSE, request |-> req,
                        response |-> ErrorResponse(401, "invalid_token"),
                        validated |-> bearer.ok]
                  ELSE [pass |-> TRUE, request |-> with_user(valid.user),
                        response |-> NoResponse, validated |-> bearer.ok]

\* AuthMiddleware.dispatch up to call_next, on one request: the response it
\* returns itself, or the request it passes on.
dispatch(req) ==
    IF is_public_endpoint(req.path)
    THEN [pass |-> TRUE, request |-> req, response |-> NoResponse, validated |-> FALSE]
    ELSE LET present == headers_has(req.headers, H_Authorization)
             auth_header == IF present THEN headers_get(req.headers, H_Authorization) ELSE <<>>
             bearer == extract_bearer_token(auth_header)
             valid == IF bearer.ok THEN validate_token(bearer.token)
                      ELSE [ok |-> FALSE, user |-> NoUser, raised |-> "ValueError"]
             stripped == strip_client_user_headers(req)
             with_user(uc) == [stripped EXCEPT !.has_user_headers = TRUE,
                                               !.user_headers = dict_update(<<>>, to_headers(uc))]
         IN  IF auth_header = <<>>
             THEN IF auth_required
                  THEN [pass |-> FALSE, request |-> req,
                        response |-> ErrorResponse(401, "missing_authorization"),
                        validated |-> FALSE]
                  ELSE [pass |-> TRUE, request |-> with_user(create_anonymous_user),
                        response |-> NoResponse, validated |-> FALSE]
             ELSE IF ~valid.ok
                  THEN IF valid.raised = "ValueError"
                       THEN [pass |-> FALSE, request |-> req,
                             response |-> ErrorResponse(401, "invalid_token"),
                             validated |-> bearer.ok]
                       ELSE [pass |-> FALSE, request |-> req,
                             response |-> Unhandled,
                             validated |-> bearer.ok]
                  ELSE [pass |-> TRUE, request |-> with_user(valid.user),
                        response |-> NoResponse, validated |-> bearer.ok]

AuthDispatch ==
    /\ pc = "auth"
    /\ LET r == dispatch(request)
       IN  /\ request' = r.request
           /\ response' = r.response
           /\ pc' = IF r.pass THEN "proxy" ELSE "done"
           /\ validated' = r.validated
    /\ UNCHANGED <<client, forwarded, outcome, reports, jwks, pipelineFrame, breakerVars>>

\* body = await request.body(): the body is read, or the caller has gone and
\* Starlette raises ClientDisconnect
BodyReads == {"read", "ClientDisconnect"}

\* Mutant: the breaker is asked and its answer is not used.
ProxyAdmit_IgnoresBreaker ==
    /\ pc = "proxy"
    /\ LET service_name == extract_service_name(route_backend(request.path))
           cs == get_or_create_circuit(circuits, service_name)
           r == IF enabled THEN is_call_allowed_body(cs[service_name], now)
                ELSE [ok |-> TRUE, circuit |-> cs[service_name]]
       IN  /\ circuits' = IF enabled THEN [cs EXCEPT ![service_name] = r.circuit] ELSE circuits
           /\ \E body \in BodyReads :
                 IF body = "read"
                 THEN /\ forwarded' = [sent |-> TRUE, service |-> service_name,
                                       headers |-> proxy_headers(request)]
                      /\ pc' = "backend"
                      /\ UNCHANGED <<response, outcome>>
                 ELSE /\ response' = Unhandled
                      /\ outcome' = [kind |-> "body", status |-> 0, raised |-> body]
                      /\ pc' = "done"
                      /\ UNCHANGED forwarded
    /\ UNCHANGED <<now, config, last, streak, admitted, client, request,
                   validated, reports, jwks, pipelineFrame>>

\* proxy_request up to the backend call: the breaker's decision, then the
\* body, the headers and the request handed to httpx.  request.body() is
\* awaited outside the try statement: what it raises leaves proxy_request.
ProxyAdmit ==
    /\ pc = "proxy"
    /\ LET service_name == extract_service_name(route_backend(request.path))
           cs == get_or_create_circuit(circuits, service_name)
           r == IF enabled THEN is_call_allowed_body(cs[service_name], now)
                ELSE [ok |-> TRUE, circuit |-> cs[service_name]]
       IN  /\ circuits' = IF enabled THEN [cs EXCEPT ![service_name] = r.circuit] ELSE circuits
           /\ IF ~r.ok
              THEN /\ response' = ErrorResponse(503, "service_unavailable")
                   /\ pc' = "done"
                   /\ UNCHANGED <<forwarded, outcome>>
              ELSE \E body \in BodyReads :
                      IF body = "read"
                      THEN /\ forwarded' = [sent |-> TRUE, service |-> service_name,
                                            headers |-> proxy_headers(request)]
                           /\ pc' = "backend"
                           /\ UNCHANGED <<response, outcome>>
                      ELSE /\ response' = Unhandled
                           /\ outcome' = [kind |-> "body", status |-> 0, raised |-> body]
                           /\ pc' = "done"
                           /\ UNCHANGED forwarded
    /\ UNCHANGED <<now, config, last, streak, admitted, client, request,
                   validated, reports, jwks, pipelineFrame>>

\* what the backend call comes to: a status code, or an httpx exception.
\* After a status code the Response for the caller is built inside the same
\* try statement, and Response(...) raises UnicodeEncodeError on a backend
\* header that latin-1 cannot encode: raised = "response".
StatusCodes == {101, 200, 404, 500, 503}
Exceptions == {"timeout", "request_error", "exception"}
BackendOutcomes ==
    [kind : {"status"}, status : StatusCodes, raised : {"none"}] \cup
    [kind : {"status"}, status : {200, 500}, raised : {"response"}] \cup
    [kind : {"raised"}, status : {0}, raised : Exceptions]

\* Mutant: only a 5xx status is reported as a failure; an exception is not reported.
breaker_report_ExceptionsUnreported(o) ==
    IF o.kind = "status"
    THEN IF 200 <= o.status /\ o.status < 500 THEN "record_success" ELSE "record_failure"
    ELSE "none"

\* proxy_request, the report made to the breaker for an outcome (routes.py
\* 186-191 for a response, 205, 216 and 227 for an exception)
breaker_report(o) ==
    IF o.kind = "status"
    THEN IF 200 <= o.status /\ o.status < 500 THEN "record_success" ELSE "record_failure"
    ELSE "record_failure"

\* proxy_request, the response returned for an outcome (routes.py 198-235)
proxy_response(o) ==
    IF o.kind = "status" /\ o.raised = "none" THEN [status |-> o.status, error |-> "none"]
    ELSE IF o.raised = "timeout" THEN ErrorResponse(504, "backend_timeout")
    ELSE IF o.raised = "request_error" THEN ErrorResponse(502, "backend_error")
    ELSE ErrorResponse(500, "proxy_error")

\* proxy_request from the backend call on: the outcome is reported to the
\* breaker and turned into the response.  What Response(...) raises after the
\* report is caught by except Exception, which reports a failure again.
ProxyComplete ==
    /\ pc = "backend"
    /\ \E o \in BackendOutcomes :
          LET service_name == forwarded.service
              cs == get_or_create_circuit(circuits, service_name)
              report == breaker_report(o)
              reported == IF ~enabled \/ report = "none" THEN circuits
                          ELSE IF report = "record_success"
                          THEN [cs EXCEPT ![service_name] = record_success_body(@)]
                          ELSE [cs EXCEPT ![service_name] = record_failure_body(@, now, now)]
              caught == o.kind = "status" /\ o.raised # "none"
          IN  /\ outcome' = o
              /\ (report = "record_failure" /\ enabled) =>
                     cs[service_name].failure_count < MaxFailureCount
              /\ (caught /\ enabled) =>
                     reported[service_name].failure_count < MaxFailureCount
              /\ circuits' =
                   IF caught /\ enabled
                   THEN [reported EXCEPT ![service_name] = record_failure_body(@, now, now)]
                   ELSE reported
              /\ reports' = (IF report = "none" THEN <<>> ELSE <<report>>)
                             \o (IF caught THEN <<"record_failure">> ELSE <<>>)
              /\ response' = proxy_response(o)
    /\ pc' = "done"
    /\ UNCHANGED <<now, config, last, streak, admitted, client, request, forwarded,
                   validated, jwks, pipelineFrame>>

\* The response goes out to the caller and the Request is dropped.
Respond ==
    /\ pc = "done"
    /\ pc' = "idle"
    /\ client' = NoClient
    /\ request' = NoRequest
    /\ forwarded' = NotForwarded
    /\ response' = NoResponse
    /\ validated' = FALSE
    /\ outcome' = NoOutcome
    /\ reports' = <<>>
    /\ UNCHANGED <<jwks, pipelineFrame, breakerVars>>

(***************************************************************************)
(* Credentials: the same pipeline, with the callers' header lines reduced  *)
(* to Authorization and every kind of credential and provider fault.       *)
(***************************************************************************)
\* /api/v1/auth/logins: a path of the route /api/v1/auth/{path:path}
\* (main.py 177-187) that is not in the list of public paths
P_auth_logins == P_auth_login \o <<"s">>

CredentialPaths == ClientPaths \cup {P_auth_logins}

CredentialValues ==
    AuthorizationValues \cup
    {<<"Bearer", "tok-expired">>, <<"Bearer", "tok-iss">>, <<"Bearer", "tok-aud">>,
     <<"Bearer", "tok-nosub">>}

\* A caller sends a request with at most an Authorization header, while the
\* JWKS endpoint answers one way or another.  The header may be sent with
\* nothing after its name: request.headers.get then gives "", not None.
ReceiveCredential ==
    /\ pc = "idle"
    /\ \E path \in CredentialPaths, a \in CredentialValues, sent \in BOOLEAN :
          LET lines == IF a = <<>> /\ ~sent THEN <<>> ELSE <<<<H_Authorization, a>>>>
          IN  /\ client' = [path |-> path, lines |-> lines]
              /\ request' = [path |-> path, headers |-> asgi_headers(lines),
                             has_user_headers |-> FALSE, user_headers |-> <<>>]
    /\ jwks' \in JwksAnswers
    /\ pc' = first_middleware
    /\ forwarded' = NotForwarded
    /\ response' = NoResponse
    /\ validated' = FALSE
    /\ outcome' = NoOutcome
    /\ reports' = <<>>
    /\ UNCHANGED <<pipelineFrame, breakerVars>>

(***************************************************************************)
(* Calls in flight (routes.py 131-235).  proxy_request asks                *)
(* is_call_allowed, awaits the backend, and reports with record_success or *)
(* record_failure(service_name); several requests are between the question *)
(* and the report at once, and the report names the service only.          *)
(***************************************************************************)
Flights == {"f1", "f2"}

\* The backend base URLs of a local deployment (scripts/generate_readme.py
\* 303, 306: FM_AUTH_SERVICE_URL http://localhost:8000, FM_CASE_SERVICE_URL
\* http://localhost:8003).
local_auth_service_url == [host |-> <<"localhost">>, port |-> 8000]
local_case_service_url == [host |-> <<"localhost">>, port |-> 8003]

BackendURLs == {local_auth_service_url, local_case_service_url}

NoFlight == [pc |-> "idle", url |-> local_auth_service_url, admitted_in |-> "none", late |-> FALSE]

\* No call is in flight, no failure was reported, no call was rejected, and
\* the backends may still fail.
NoFlights ==
    [calls |-> [f \in Flights |-> NoFlight],
     failed |-> {},
     rejected |-> {},
     recovered |-> FALSE]

FlightIdle == in_flight = NoFlights

flightFrame == <<config, streak, admitted, pipelineVars, threadVars, encodeVars,
                 limiterVars, loopVars>>

\* proxy_request up to the backend call (routes.py 131-141): the service name
\* of the backend URL, is_call_allowed on its record, and the 503 when the
\* answer is no.  A call admitted by a CLOSED record is an ordinary call; one
\* admitted by the OPEN->HALF_OPEN transition or by a HALF_OPEN record is a trial.
flight_call(f, backend_url) ==
    /\ in_flight.calls[f].pc = "idle"
    /\ LET service_name == extract_service_name(backend_url)
           cs == get_or_create_circuit(circuits, service_name)
           r == is_call_allowed_body(cs[service_name], now)
       IN  /\ circuits' = [cs EXCEPT ![service_name] = r.circuit]
           /\ last' = Call("is_call_allowed", service_name, r.ok, cs[service_name])
           /\ in_flight' =
                 IF r.ok
                 THEN [in_flight EXCEPT
                          !.calls[f] = [pc |-> "backend",
                                        url |-> backend_url,
                                        admitted_in |-> IF cs[service_name].state = CLOSED
                                                        THEN "closed" ELSE "trial",
                                        late |-> ~in_flight.recovered]]
                 ELSE [in_flight EXCEPT !.rejected = @ \cup {backend_url}]
    /\ UNCHANGED <<now, flightFrame>>

\* The backend answered below 500: record_success(service_name) (routes.py 186-188).
flight_success(f) ==
    /\ in_flight.calls[f].pc = "backend"
    /\ LET service_name == extract_service_name(in_flight.calls[f].url)
           cs == get_or_create_circuit(circuits, service_name)
       IN  /\ circuits' = [cs EXCEPT ![service_name] = record_success_body(@)]
           /\ last' = Call("record_success", service_name,
                           in_flight.calls[f].admitted_in, cs[service_name])
    /\ in_flight' = [in_flight EXCEPT !.calls[f] = NoFlight]
    /\ UNCHANGED <<now, flightFrame>>

\* The backend answered 5xx or the call raised: record_failure(service_name)
\* (routes.py 189-235).  Only a call sent before the backends recovered fails.
\* The clock is bounded: a failure is reported only while reset_timeout can
\* still elapse before the clock stops.
flight_failure(f) ==
    /\ in_flight.calls[f].pc = "backend"
    /\ in_flight.calls[f].late
    /\ now + reset_timeout <= MaxTime
    /\ LET service_name == extract_service_name(in_flight.calls[f].url)
           cs == get_or_create_circuit(circuits, service_name)
       IN  /\ cs[service_name].failure_count < MaxFailureCount
           /\ circuits' = [cs EXCEPT ![service_name] = record_failure_body(@, now, now)]
           /\ last' = Call("record_failure", service_name,
                           in_flight.calls[f].admitted_in, cs[service_name])
    /\ in_flight' = [in_flight EXCEPT !.calls[f] = NoFlight,
                                      !.failed = @ \cup {in_flight.calls[f].url}]
    /\ UNCHANGED <<now, flightFrame>>

\* From here on every backend answers every call sent to it.
backends_recover ==
    /\ ~in_flight.recovered
    /\ in_flight' = [in_flight EXCEPT !.recovered = TRUE]
    /\ last' = NoCall
    /\ UNCHANGED <<now, circuits, flightFrame>>

FlightTick ==
    /\ now < MaxTime
    /\ now' = now + 1
    /\ last' = NoCall
    /\ UNCHANGED <<circuits, in_flight, flightFrame>>

FlightNext ==
    \/ \E f \in Flights, backend_url \in BackendURLs : flight_call(f, backend_url)
    \/ \E f \in Flights : flight_success(f)
    \/ \E f \in Flights : flight_failure(f)
    \/ backends_recover
    \/ FlightTick

(***************************************************************************)
(* The event loop: the requests in flight as coroutines on one thread, and *)
(* the signing key cache of FMAuthProvider they share.  A coroutine keeps  *)
(* the thread until it awaits; a call that is not awaited keeps the thread *)
(* for as long as it takes.                                                *)
(***************************************************************************)
MaxKeys == 3        \* signing keys fm-auth-service publishes, one after another

Requests == {"r1", "r2"}

\* FMAuthProvider(service_url, cache_ttl): the cache_ttl the model is run with
CacheTTLs == {1, 2}

\* self._cached_key = None; self._cache_time = 0
EmptyCache(cache_ttl) == [key |-> None, time |-> 0, cache_ttl |-> cache_ttl]

NoKey == [key |-> None, time |-> 0]

IdleCoroutine == [pc |-> "new", current_time |-> 0, public_key |-> None]

LoopIdle ==
    /\ coroutines = <<>>
    /\ running = ""
    /\ key_cache = EmptyCache(1)
    /\ jwk_server = 1
    /\ fetched = NoKey

\* The network calls of a request: the key fetch is httpx.get(...)
\* (fm_auth_provider.py 128) and the store round trip is self.redis.incr(key)
\* (rate_limiter.py 82), plain calls both; the backend call is
\* await client.request(...) (routes.py 172).
NetworkCalls == {"key_fetch", "store_round_trip", "backend_forward"}

\* the call is awaited: the coroutine gives the thread back while it waits
suspends(call) == call = "backend_forward"

\* who has the thread while coroutine r waits on the call
thread_during(call, r) == IF suspends(call) THEN "" ELSE r

\* Mutant: a cached key is used whatever its age.
cache_fresh_WhateverAge(cache, current_time) == cache.key # None

\* if self._cached_key and (current_time - self._cache_time) < self.cache_ttl
cache_fresh(cache, current_time) ==
    cache.key # None /\ (current_time - cache.time) < cache.cache_ttl

loopFrame == <<config, circuits, last, streak, admitted, pipelineVars, threadVars,
               encodeVars, limiterVars, flightVars>>

\* The loop takes up a request: AuthMiddleware.dispatch runs to validate_token
\* and _get_public_key, which reads the clock and the cache, returns the
\* cached key or goes on to the fetch.
begin_validate(r) ==
    /\ coroutines[r].pc = "new"
    /\ running = ""
    /\ IF cache_fresh(key_cache, now)
       THEN /\ coroutines' = [coroutines EXCEPT ![r] =
                  [pc |-> "decode", current_time |-> now, public_key |-> key_cache.key]]
            /\ running' = r
       ELSE /\ coroutines' = [coroutines EXCEPT ![r] =
                  [pc |-> "key_fetch", current_time |-> now, public_key |-> None]]
            /\ running' = thread_during("key_fetch", r)
    /\ UNCHANGED <<key_cache, jwk_server, fetched, now, loopFrame>>

\* The JWKS endpoint answers with the key it publishes now, and the key is
\* made into PEM.
fetch_returns(r) ==
    /\ coroutines[r].pc = "key_fetch"
    /\ running = thread_during("key_fetch", r)
    /\ coroutines' = [coroutines EXCEPT ![r].pc = "cache_key", ![r].public_key = jwk_server]
    /\ running' = r
    /\ UNCHANGED <<key_cache, jwk_server, fetched, now, loopFrame>>

\* Mutant: when the fetch fails and a key is cached, that key is used.
fetch_fails_ServesStale(r) ==
    /\ coroutines[r].pc = "key_fetch"
    /\ running = thread_during("key_fetch", r)
    /\ IF key_cache.key # None
       THEN /\ coroutines' = [coroutines EXCEPT ![r].pc = "decode",
                                                ![r].public_key = key_cache.key]
            /\ running' = r
       ELSE /\ coroutines' = [coroutines EXCEPT ![r].pc = "new", ![r].public_key = None]
            /\ running' = ""
    /\ UNCHANGED <<key_cache, jwk_server, fetched, now, loopFrame>>

\* The fetch fails (httpx.HTTPError, an error status, no keys, a key that
\* cannot be made into PEM): ValueError, the request is answered 401 and the
\* cache is as it was.  The coroutine keeps, as history, the time its
\* validate call read.
fetch_fails(r) ==
    /\ coroutines[r].pc = "key_fetch"
    /\ running = thread_during("key_fetch", r)
    /\ coroutines' = [coroutines EXCEPT ![r].pc = "new", ![r].public_key = None]
    /\ running' = ""
    /\ UNCHANGED <<key_cache, jwk_server, fetched, now, loopFrame>>

\* self._cached_key = public_key_pem
cache_key(r) ==
    /\ coroutines[r].pc = "cache_key"
    /\ running = r
    /\ key_cache' = [key_cache EXCEPT !.key = coroutines[r].public_key]
    /\ coroutines' = [coroutines EXCEPT ![r].pc = "cache_time"]
    /\ UNCHANGED <<running, jwk_server, fetched, now, loopFrame>>

\* self._cache_time = current_time
cache_time(r) ==
    /\ coroutines[r].pc = "cache_time"
    /\ running = r
    /\ key_cache' = [key_cache EXCEPT !.time = coroutines[r].current_time]
    /\ fetched' = [key |-> coroutines[r].public_key, time |-> coroutines[r].current_time]
    /\ coroutines' = [coroutines EXCEPT ![r].pc = "decode"]
    /\ UNCHANGED <<running, jwk_server, now, loopFrame>>

\* The token is decoded with the key, the request goes on to proxy_request
\* and the backend call is issued.
forward(r) ==
    /\ coroutines[r].pc = "decode"
    /\ running = r
    /\ coroutines' = [coroutines EXCEPT ![r].pc = "backend_forward"]
    /\ running' = thread_during("backend_forward", r)
    /\ UNCHANGED <<key_cache, jwk_server, fetched, now, loopFrame>>

\* The backend answers, the coroutine is resumed and the response goes out.
backend_returns(r) ==
    /\ coroutines[r].pc = "backend_forward"
    /\ running = thread_during("backend_forward", r)
    /\ coroutines' = [coroutines EXCEPT ![r] = IdleCoroutine]
    /\ running' = ""
    /\ UNCHANGED <<key_cache, jwk_server, fetched, now, loopFrame>>

\* fm-auth-service publishes a new signing key
rotate_key ==
    /\ jwk_server < MaxKeys
    /\ jwk_server' = jwk_server + 1
    /\ UNCHANGED <<coroutines, running, key_cache, fetched, now, loopFrame>>

\* time.time() moves on by a second, whatever the thread is doing
LoopTick ==
    /\ now < MaxTime
    /\ now' = now + 1
    /\ UNCHANGED <<coroutines, running, key_cache, jwk_server, fetched, loopFrame>>

(***************************************************************************)
(* RateLimiter (rate_limiter.py) over RedisClient (redis_client.py).       *)
(* Tokens are counted in sixtieths of a token, so that the refill of       *)
(* elapsed * (requests_per_minute / 60.0) tokens is a whole number for     *)
(* every whole number of seconds.                                          *)
(***************************************************************************)
MaxSeconds == 2     \* the clock is followed second by second this far into a minute
MaxClock == 62      \* the clock stops here
MaxCount == 4       \* is_allowed is not called on a key the store counts this high

Identifiers == {"ip-a", "ip-b"}

TokenUnit == 60     \* sixtieths in one token (rate_limiter.py 118: / 60.0)
WINDOW == 60        \* self.redis.expire(key, 60)

Min(a, b) == IF a <= b THEN a ELSE b
Max(a, b) == IF a >= b THEN a ELSE b

H_Limit == "X-RateLimit-Limit"
H_Remaining == "X-RateLimit-Remaining"
H_Reset == "X-RateLimit-Reset"

\* a dict of headers: header name -> value; {} is the function of no name
NoHeaders == <<>>

\* self.burst_size = burst_size or (requests_per_minute * 2)
burst_size_or(burst_size, requests_per_minute) ==
    IF burst_size = None \/ burst_size = 0 THEN requests_per_minute * 2 ELSE burst_size

\* RateLimiter(requests_per_minute, burst_size, enabled)
RateLimiter(requests_per_minute, burst_size, is_enabled) ==
    [enabled |-> is_enabled,
     requests_per_minute |-> requests_per_minute,
     burst_size |-> burst_size_or(burst_size, requests_per_minute),
     buckets |-> <<>>]

\* The limiters the model is run with.
Limiters ==
    { RateLimiter(2, None, TRUE), RateLimiter(1, 1, TRUE),
      RateLimiter(1, 0, TRUE), RateLimiter(2, None, FALSE) }

\* the defaultdict factory of _memory_buckets: a full bucket made at instant t
new_bucket(rl, t) == [tokens |-> rl.burst_size * TokenUnit, last_update |-> t]

\* self._memory_buckets[identifier]
bucket_of(rl, identifier, t) ==
    IF identifier \in DOMAIN rl.buckets THEN rl.buckets[identifier] ELSE new_bucket(rl, t)

\* Mutant: the refill is not capped at burst_size.
refill_Uncapped(rl, bucket, t) ==
    bucket.tokens + (t - bucket.last_update) * rl.requests_per_minute

\* min(self.burst_size, bucket["tokens"] + tokens_to_add), in sixtieths
refill(rl, bucket, t) ==
    Min(rl.burst_size * TokenUnit,
        bucket.tokens + (t - bucket.last_update) * rl.requests_per_minute)

\* int(bucket["tokens"])
int_tokens(tokens) == tokens \div TokenUnit

\* _check_memory(identifier) at instant t: the result and the bucket it leaves
check_memory(rl, identifier, t) ==
    LET bucket == bucket_of(rl, identifier, t)
        tokens == refill(rl, bucket, t)
    IN  IF tokens >= TokenUnit
        THEN [allowed |-> TRUE,
              headers |-> (H_Limit :> rl.requests_per_minute
                           @@ H_Remaining :> int_tokens(tokens - TokenUnit)),
              refilled |-> tokens,
              bucket |-> [tokens |-> tokens - TokenUnit, last_update |-> t]]
        ELSE [allowed |-> FALSE,
              headers |-> (H_Limit :> rl.requests_per_minute @@ H_Remaining :> 0),
              refilled |-> tokens,
              bucket |-> [tokens |-> tokens, last_update |-> t]]

\* The Redis server: no key yet, answering or not.
RedisServer(up) == [up |-> up, keys |-> <<>>]

\* f"ratelimit:{identifier}": one key for each identifier
rate_limit_key(identifier) == identifier

\* INCR on the server: a key that does not exist counts from 0 and has no expiry
redis_incr(keys, key) ==
    IF key \in DOMAIN keys
    THEN [keys EXCEPT ![key].value = @ + 1]
    ELSE keys @@ (key :> [value |-> 1, expire_at |-> None])

\* EXPIRE on the server at instant t
redis_expire(keys, key, seconds, t) == [keys EXCEPT ![key].expire_at = t + seconds]

\* the keys whose expiry has not come at instant t
live_keys(keys, t) ==
    LET live == {k \in DOMAIN keys : keys[k].expire_at = None \/ t < keys[k].expire_at}
    IN  [k \in live |-> keys[k]]

\* What can go wrong in one round trip to a server that answers: nothing, the
\* INCR fails before the server ran it, the INCR's reply is lost, the EXPIRE
\* fails.
Faults == {"none", "incr_error", "incr_reply_lost", "expire_error"}

\* RedisClient.is_available(): self.client is not None
is_available(redis_client_set) == redis_client_set

\* RedisClient.incr(key): the value, or None when there is no client or the
\* call raised RedisError; with it the keys the server has afterwards
incr(has_client, server, key, fault) ==
    IF ~has_client \/ ~server.up \/ fault = "incr_error"
    THEN [value |-> None, keys |-> server.keys]
    ELSE LET keys == redis_incr(server.keys, key)
         IN  [value |-> IF fault = "incr_reply_lost" THEN None ELSE keys[key].value,
              keys |-> keys]

\* RedisClient.expire(key, seconds): False when the call raised RedisError
expire(has_client, server_up, keys, key, seconds, t, fault) ==
    IF ~has_client \/ ~server_up \/ fault = "expire_error"
    THEN [ok |-> FALSE, keys |-> keys]
    ELSE [ok |-> TRUE, keys |-> redis_expire(keys, key, seconds, t)]

\* Mutant: a check that raised denies the request.
on_store_error_FailClosed == [allowed |-> FALSE, headers |-> NoHeaders]

\* except Exception: return True, {}
on_store_error == [allowed |-> TRUE, headers |-> NoHeaders]

\* Mutant: the expiry is set by every call that got a count.
first_in_window_Always(current) == current # None

\* if current == 1:
first_in_window(current) == current = 1

\* _check_redis(identifier) at instant t.  remaining = max(0, limit - current)
\* raises TypeError on current = None, and except Exception returns (True, {}).
check_redis(rl, has_client, server, identifier, t, fault) ==
    LET key == rate_limit_key(identifier)
        current == incr(has_client, server, key, fault)
        expired == IF first_in_window(current.value)
                   THEN expire(has_client, server.up, current.keys, key, WINDOW, t, fault)
                   ELSE [ok |-> FALSE, keys |-> current.keys]
    IN  IF current.value = None
        THEN [allowed |-> on_store_error.allowed, headers |-> on_store_error.headers,
              current |-> None, expire_called |-> FALSE, keys |-> current.keys]
        ELSE [allowed |-> current.value <= rl.requests_per_minute,
              headers |-> (H_Limit :> rl.requests_per_minute
                           @@ H_Remaining :> Max(0, rl.requests_per_minute - current.value)
                           @@ H_Reset :> t + WINDOW),
              current |-> current.value,
              expire_called |-> first_in_window(current.value),
              keys |-> expired.keys]

\* no is_allowed call has been made
NoDecision ==
    [identifier |-> "", mode |-> "none", allowed |-> FALSE, headers |-> NoHeaders,
     store_up |-> FALSE, fault |-> "none", refilled |-> None, current |-> None,
     expire_called |-> FALSE, before |-> None, at |-> 0]

\* no caller is in is_allowed
NoCallers == [holder |-> "", done |-> 0, granted |-> 0, at |-> <<>>]

\* the limiter is not part of the run
LimiterIdle ==
    /\ rate_limiter = RateLimiter(2, None, TRUE)
    /\ redis_client = FALSE
    /\ redis = RedisServer(FALSE)
    /\ decision = NoDecision
    /\ rl_callers = NoCallers

limiterFrame == <<breakerVars, pipelineVars, threadVars, encodeVars, loopVars, flightVars>>

\* the count the store holds for the identifier, 0 when it holds none
store_count(identifier) ==
    IF rate_limit_key(identifier) \in DOMAIN redis.keys
    THEN redis.keys[rate_limit_key(identifier)].value ELSE 0

\* is_allowed(identifier), the whole call (rate_limiter.py 54-73)
is_allowed(identifier) ==
    /\ store_count(identifier) < MaxCount
    /\ \E fault \in Faults :
          IF ~rate_limiter.enabled
          THEN /\ decision' = [NoDecision EXCEPT !.identifier = identifier, !.mode = "disabled",
                                  !.allowed = TRUE, !.store_up = redis.up, !.at = now]
               /\ UNCHANGED <<rate_limiter, redis>>
          ELSE IF is_available(redis_client)
          THEN LET r == check_redis(rate_limiter, redis_client, redis, identifier, now, fault)
               IN  /\ redis' = [redis EXCEPT !.keys = r.keys]
                   /\ decision' = [NoDecision EXCEPT !.identifier = identifier, !.mode = "redis",
                                      !.allowed = r.allowed, !.headers = r.headers,
                                      !.store_up = redis.up, !.fault = fault,
                                      !.current = r.current, !.expire_called = r.expire_called,
                                      !.before = store_count(identifier), !.at = now]
                   /\ UNCHANGED rate_limiter
          ELSE LET r == check_memory(rate_limiter, identifier, now)
               IN  /\ rate_limiter' = [rate_limiter EXCEPT !.buckets =
                          [i \in DOMAIN @ \cup {identifier} |->
                              IF i = identifier THEN r.bucket ELSE @[i]]]
                   /\ decision' = [NoDecision EXCEPT !.identifier = identifier, !.mode = "memory",
                                      !.allowed = r.allowed, !.headers = r.headers,
                                      !.store_up = redis.up, !.refilled = r.refilled, !.at = now]
                   /\ UNCHANGED redis
    /\ UNCHANGED <<redis_client, rl_callers, now, limiterFrame>>

\* time.time() moves on, by a second or by a window; the server drops the
\* keys whose expiry has come
RateTick ==
    /\ \E d \in {1, WINDOW} :
          /\ now + d <= MaxClock
          /\ d = 1 => (now % WINDOW) < MaxSeconds
          /\ now' = now + d
          /\ redis' = [redis EXCEPT !.keys = live_keys(@, now + d)]
    /\ UNCHANGED <<enabled, fail_threshold, reset_timeout, half_open_max_calls, circuits,
                   last, streak, admitted, rate_limiter, redis_client, decision, rl_callers,
                   pipelineVars, threadVars, encodeVars, loopVars, flightVars>>

\* the Redis server stops answering
StoreFails ==
    /\ redis.up
    /\ redis' = [redis EXCEPT !.up = FALSE]
    /\ UNCHANGED <<rate_limiter, redis_client, decision, rl_callers, now, limiterFrame>>

\* the Redis server answers again
StoreRecovers ==
    /\ ~redis.up
    /\ redis' = [redis EXCEPT !.up = TRUE]
    /\ UNCHANGED <<rate_limiter, redis_client, decision, rl_callers, now, limiterFrame>>

\* RedisClient._initialize_client: the client is kept when the ping at start
\* is answered, and is None when it raised RedisError.
RateLimitInit ==
    /\ BreakerInit
    /\ enabled /\ fail_threshold = 2 /\ reset_timeout = 2
    /\ auth_required = TRUE
    /\ auth_provider = "fm-auth-service"
    /\ jwks = "keys"
    /\ PipelineIdle
    /\ ThreadsIdle
    /\ NothingEncoded
    /\ LoopIdle
    /\ FlightIdle
    /\ rate_limiter \in Limiters
    /\ redis \in {RedisServer(TRUE), RedisServer(FALSE)}
    /\ redis_client = redis.up
    /\ decision = NoDecision
    /\ rl_callers = NoCallers

RateLimitNext ==
    \/ \E i \in Identifiers : is_allowed(i)
    \/ RateTick
    \/ StoreFails
    \/ StoreRecovers

(***************************************************************************)
(* _check_memory statement by statement, for callers that run at once in   *)
(* threads of one process.  Each caller keeps what _check_memory holds in  *)
(* local variables: t is `now`, tmp a value read from the bucket.          *)
(***************************************************************************)
MaxCalls == 122     \* is_allowed calls on the identifier

BurstCallers == {"c1", "c2"}

BurstIdentifier == "ip-a"

\* get_rate_limiter(): 60 requests a minute and the default burst_size of
\* 120; and a limiter of one token
BurstLimiters == { RateLimiter(60, None, TRUE), RateLimiter(1, 1, TRUE) }

IdleBurstCaller == [pc |-> "idle", t |-> 0, tmp |-> 0, allowed |-> FALSE]

BurstCallersIdle ==
    [holder |-> "", done |-> 0, granted |-> 0, at |-> [c \in BurstCallers |-> IdleBurstCaller]]

\* Mutant: the lock never makes a caller wait.
bucket_lock_free_Always(holder) == TRUE

\* with self._lock: the lock can be taken when no thread holds it
bucket_lock_free(holder) == holder = ""

burstFrame == <<breakerVars, pipelineVars, threadVars, encodeVars, loopVars, flightVars,
               redis_client, redis>>

\* the calls begun and not returned
InFlight == Cardinality({c \in BurstCallers : rl_callers.at[c].pc # "idle"})

\* is_allowed(identifier) with the limiter enabled and no Redis client: on to
\* _check_memory
begin_is_allowed(c) ==
    /\ rl_callers.at[c].pc = "idle"
    /\ rl_callers.done + InFlight < MaxCalls
    /\ rate_limiter.enabled /\ ~is_available(redis_client)
    /\ rl_callers' = [rl_callers EXCEPT !.at[c].pc = "lock"]
    /\ UNCHANGED <<rate_limiter, decision, now, burstFrame>>

\* with self._lock:
acquire_bucket_lock(c) ==
    /\ rl_callers.at[c].pc = "lock"
    /\ bucket_lock_free(rl_callers.holder)
    /\ rl_callers' = [rl_callers EXCEPT !.holder = c, !.at[c].pc = "bucket"]
    /\ UNCHANGED <<rate_limiter, decision, now, burstFrame>>

\* bucket = self._memory_buckets[identifier]; now = time.time()
read_bucket(c) ==
    /\ rl_callers.at[c].pc = "bucket"
    /\ rate_limiter' = [rate_limiter EXCEPT !.buckets =
          IF BurstIdentifier \in DOMAIN @ THEN @
          ELSE @ @@ (BurstIdentifier :> new_bucket(rate_limiter, now))]
    /\ rl_callers' = [rl_callers EXCEPT !.at[c].t = now, !.at[c].pc = "refill"]
    /\ UNCHANGED <<decision, now, burstFrame>>

\* time_elapsed, tokens_to_add and the value of min(...)
compute_refill(c) ==
    /\ rl_callers.at[c].pc = "refill"
    /\ rl_callers' = [rl_callers EXCEPT
          !.at[c].tmp = refill(rate_limiter, rate_limiter.buckets[BurstIdentifier],
                               rl_callers.at[c].t),
          !.at[c].pc = "store"]
    /\ UNCHANGED <<rate_limiter, decision, now, burstFrame>>

\* bucket["tokens"] = ...; bucket["last_update"] = now
store_refill(c) ==
    /\ rl_callers.at[c].pc = "store"
    /\ rate_limiter' = [rate_limiter EXCEPT !.buckets[BurstIdentifier] =
          [tokens |-> rl_callers.at[c].tmp, last_update |-> rl_callers.at[c].t]]
    /\ rl_callers' = [rl_callers EXCEPT !.at[c].pc = "test"]
    /\ UNCHANGED <<decision, now, burstFrame>>

\* if bucket["tokens"] >= 1: and the read of bucket["tokens"] -= 1
test_tokens(c) ==
    /\ rl_callers.at[c].pc = "test"
    /\ LET tokens == rate_limiter.buckets[BurstIdentifier].tokens
       IN  rl_callers' = [rl_callers EXCEPT
              !.at[c].tmp = tokens,
              !.at[c].allowed = tokens >= TokenUnit,
              !.at[c].pc = IF tokens >= TokenUnit THEN "take" ELSE "exit"]
    /\ UNCHANGED <<rate_limiter, decision, now, burstFrame>>

\* the write of bucket["tokens"] -= 1
take_token(c) ==
    /\ rl_callers.at[c].pc = "take"
    /\ rate_limiter' = [rate_limiter EXCEPT !.buckets[BurstIdentifier].tokens =
          rl_callers.at[c].tmp - TokenUnit]
    /\ rl_callers' = [rl_callers EXCEPT !.at[c].pc = "exit"]
    /\ UNCHANGED <<decision, now, burstFrame>>

\* return is_allowed, headers: the lock is given back and the caller has its
\* answer
return_is_allowed(c) ==
    /\ rl_callers.at[c].pc = "exit"
    /\ rl_callers' = [rl_callers EXCEPT
          !.holder = IF @ = c THEN "" ELSE @,
          !.done = @ + 1,
          !.granted = IF rl_callers.at[c].allowed THEN @ + 1 ELSE @,
          !.at[c] = IdleBurstCaller]
    /\ decision' = [NoDecision EXCEPT !.identifier = BurstIdentifier, !.mode = "memory",
                       !.allowed = rl_callers.at[c].allowed, !.store_up = redis.up,
                       !.at = rl_callers.at[c].t]
    /\ UNCHANGED <<rate_limiter, now, burstFrame>>

\* time.time() moves on by a second
BurstTick ==
    /\ now < MaxSeconds
    /\ now' = now + 1
    /\ UNCHANGED <<enabled, fail_threshold, reset_timeout, half_open_max_calls, circuits,
                   last, streak, admitted, rate_limiter, decision, rl_callers,
                   pipelineVars, threadVars, encodeVars, loopVars, flightVars,
                   redis_client, redis>>

\* No Redis answered the ping at the start, and none answers later.
BurstInit ==
    /\ BreakerInit
    /\ enabled /\ fail_threshold = 2 /\ reset_timeout = 2
    /\ auth_required = TRUE
    /\ auth_provider = "fm-auth-service"
    /\ jwks = "keys"
    /\ PipelineIdle
    /\ ThreadsIdle
    /\ NothingEncoded
    /\ LoopIdle
    /\ FlightIdle
    /\ rate_limiter \in BurstLimiters
    /\ redis = RedisServer(FALSE)
    /\ redis_client = FALSE
    /\ decision = NoDecision
    /\ rl_callers = BurstCallersIdle

BurstNext ==
    \/ \E c \in BurstCallers : begin_is_allowed(c)
    \/ \E c \in BurstCallers : acquire_bucket_lock(c)
    \/ \E c \in BurstCallers : read_bucket(c)
    \/ \E c \in BurstCallers : compute_refill(c)
    \/ \E c \in BurstCallers : store_refill(c)
    \/ \E c \in BurstCallers : test_tokens(c)
    \/ \E c \in BurstCallers : take_token(c)
    \/ \E c \in BurstCallers : return_is_allowed(c)
    \/ BurstTick

LoopInit ==
    /\ BreakerInit
    /\ enabled /\ fail_threshold = 2 /\ reset_timeout = 2
    /\ auth_required = TRUE
    /\ auth_provider = "fm-auth-service"
    /\ jwks = "keys"
    /\ PipelineIdle
    /\ ThreadsIdle
    /\ NothingEncoded
    /\ LimiterIdle
    /\ coroutines = [r \in Requests |-> IdleCoroutine]
    /\ running = ""
    /\ \E ttl \in CacheTTLs : key_cache = EmptyCache(ttl)
    /\ jwk_server = 1
    /\ fetched = NoKey
    /\ FlightIdle

LoopNext ==
    \/ \E r \in Requests : begin_validate(r)
    \/ \E r \in Requests : fetch_returns(r)
    \/ \E r \in Requests : fetch_fails(r)
    \/ \E r \in Requests : cache_key(r)
    \/ \E r \in Requests : cache_time(r)
    \/ \E r \in Requests : forward(r)
    \/ \E r \in Requests : backend_returns(r)
    \/ rotate_key
    \/ LoopTick

\* The app starts with a provider _create_auth_provider returned.
StartedProviders ==
    {create_auth_provider(p).provider :
        p \in {q \in PrimaryAuthProviders : create_auth_provider(q).raised = "none"}}

CredentialInit ==
    /\ BreakerInit
    /\ half_open_max_calls = 1
    /\ auth_required \in BOOLEAN
    /\ auth_provider \in StartedProviders
    /\ jwks = "keys"
    /\ PipelineIdle
    /\ ThreadsIdle
    /\ LimiterIdle
    /\ LoopIdle
    /\ FlightIdle
    /\ NothingEncoded

CredentialNext ==
    \/ ReceiveCredential
    \/ AuthDispatch
    \/ ProxyAdmit
    \/ ProxyComplete
    \/ Respond

(***************************************************************************)
(* UserContext.to_headers called on UserContext objects.                   *)
(***************************************************************************)
MaxRoles == 2       \* roles in a UserContext

UserContexts ==
    {UserContext(u, e, r, v) :
        u \in {"u1", "u2"}, e \in {"", "u1@example.com"},
        r \in SeqsUpTo({"user", "admin"}, MaxRoles), v \in BOOLEAN}

EncodeInit ==
    /\ BreakerInit
    /\ enabled
    /\ fail_threshold = 2 /\ reset_timeout = 2
    /\ auth_required = TRUE
    /\ auth_provider = "fm-auth-service"
    /\ jwks = "keys"
    /\ PipelineIdle
    /\ ThreadsIdle
    /\ LimiterIdle
    /\ LoopIdle
    /\ FlightIdle
    /\ user_context \in UserContexts
    /\ encoded = <<>>

\* UserContext(...): a second object, with the same fields or not
new_user_context ==
    /\ Len(encoded) = 1
    /\ user_context' \in UserContexts
    /\ UNCHANGED <<encoded, breakerVars, pipelineVars, threadVars, restVars>>

\* user_context.to_headers(); the call and its result are kept
to_headers_call ==
    /\ Len(encoded) < 2
    /\ encoded' = Append(encoded, [of |-> user_context, headers |-> to_headers(user_context)])
    /\ UNCHANGED <<user_context, breakerVars, pipelineVars, threadVars, restVars>>

EncodeNext ==
    \/ new_user_context
    \/ to_headers_call

\* The pipeline uses the breaker of get_circuit_breaker (circuit_breaker.py
\* 245-260), which leaves half_open_max_calls at its default of 1.
PipelineInit ==
    /\ BreakerInit
    /\ half_open_max_calls = 1
    /\ auth_required \in BOOLEAN
    /\ auth_provider = "fm-auth-service"
    /\ jwks = "keys"
    /\ PipelineIdle
    /\ ThreadsIdle
    /\ LimiterIdle
    /\ LoopIdle
    /\ FlightIdle
    /\ NothingEncoded

PipelineNext ==
    \/ Receive
    \/ AuthDispatch
    \/ ProxyAdmit
    \/ ProxyComplete
    \/ Respond

vars == <<breakerVars, pipelineVars, threadVars, encodeVars, restVars>>

Init ==
    /\ BreakerInit
    /\ auth_required = TRUE
    /\ auth_provider = "fm-auth-service"
    /\ jwks = "keys"
    /\ PipelineIdle
    /\ ThreadsIdle
    /\ LimiterIdle
    /\ LoopIdle
    /\ FlightIdle
    /\ NothingEncoded

Next ==
    \/ Tick
    \/ \E s \in Services : is_call_allowed(s)
    \/ \E s \in Services : record_success(s)
    \/ \E s \in Services : record_failure(s)
    \/ \E s \in Services : get_state(s)
    \/ \E s \in Services : get_stats(s)

\* the breaker under any sequence of calls
Spec == Init /\ [][Next]_vars

\* the request pipeline, one request after another at one instant
PipelineSpec == PipelineInit /\ [][PipelineNext]_vars

\* the request pipeline under every kind of credential
CredentialSpec == CredentialInit /\ [][CredentialNext]_vars

ConcurrentInit ==
    /\ BreakerInit
    /\ auth_required = TRUE
    /\ auth_provider = "fm-auth-service"
    /\ jwks = "keys"
    /\ PipelineIdle
    /\ ThreadsIdle
    /\ LimiterIdle
    /\ LoopIdle
    /\ FlightIdle
    /\ NothingEncoded

\* two callers of the breaker at once
ConcurrentSpec == ConcurrentInit /\ [][ConcurrentNext]_vars

\* to_headers on every UserContext
EncodeSpec == EncodeInit /\ [][EncodeNext]_vars

\* the rate limiter under any sequence of calls, with a store that fails
RateLimitSpec == RateLimitInit /\ [][RateLimitNext]_vars

\* two requests on the event loop, with the key cache of the provider
LoopSpec == LoopInit /\ [][LoopNext]_vars

\* two callers of the local-fallback limiter at once, on one identifier
BurstSpec == BurstInit /\ [][BurstNext]_vars

\* An enabled breaker and nothing in flight.
FlightInit ==
    /\ BreakerInit
    /\ enabled
    /\ auth_required = TRUE
    /\ auth_provider = "fm-auth-service"
    /\ jwks = "keys"
    /\ PipelineIdle
    /\ ThreadsIdle
    /\ NothingEncoded
    /\ LimiterIdle
    /\ LoopIdle
    /\ FlightIdle

\* two proxied calls in flight at once, to backends that fail and recover
FlightSpec == FlightInit /\ [][FlightNext]_vars

\* The same, where the clock advances, requests for every backend keep
\* arriving, and every call sent comes to its end (httpx timeout=30.0,
\* routes.py 177): with an answer, unless it fails.
RecoverySpec ==
    /\ FlightInit
    /\ [][FlightNext]_vars
    /\ WF_vars(FlightTick)
    /\ \A f \in Flights : WF_vars(flight_success(f))
    /\ \A f \in Flights, backend_url \in BackendURLs : SF_vars(flight_call(f, backend_url))

(***************************************************************************)
(* Claims about the circuit breaker, checked under Spec.                   *)
(***************************************************************************)
\* the record of the service the call in `last` was made on
LastCircuit == circuits[last.svc]

LastIs(op) == enabled /\ last.op = op /\ last.svc \in DOMAIN circuits

\* C1: for every backend of an enabled breaker, once fail_threshold consecutive
\* record_failure calls have been made on its CLOSED circuit, the circuit is
\* OPEN with opened_at set by the last of them, and as long as reset_timeout
\* has not elapsed since opened_at the circuit is still OPEN and every
\* is_call_allowed call returns false.
C1_OpensAfterThreshold ==
    \A s \in Services :
        (enabled /\ s \in DOMAIN circuits /\ streak[s] = fail_threshold) =>
            LET c == circuits[s]
            IN  /\ ~Falsy(c.opened_at)
                /\ (last.op = "record_failure" /\ last.svc = s) =>
                       (c.state = OPEN /\ c.opened_at = now)
                /\ (now - c.opened_at < reset_timeout) =>
                       /\ c.state = OPEN
                       /\ (last.op = "is_call_allowed" /\ last.svc = s) =>
                              last.val = FALSE

\* a call made later than the opening one, within reset_timeout, was rejected
C1_Witness ==
    /\ enabled /\ fail_threshold = 2
    /\ last.op = "is_call_allowed" /\ last.svc = "svc-x"
    /\ "svc-x" \in DOMAIN circuits
    /\ streak["svc-x"] = fail_threshold
    /\ circuits["svc-x"].state = OPEN
    /\ now > circuits["svc-x"].opened_at
    /\ last.val = FALSE

\* C4: is_call_allowed on an OPEN circuit returns true only if
\* now - opened_at >= reset_timeout, and then the record is HALF_OPEN with
\* success_count_in_half_open = 0; if less than reset_timeout has elapsed it
\* returns false and the record is unchanged in every field.
C4_OpenGate ==
    (LastIs("is_call_allowed") /\ last.pre.state = OPEN) =>
        /\ (last.val = TRUE) =>
               /\ now - last.pre.opened_at >= reset_timeout
               /\ LastCircuit = [last.pre EXCEPT !.state = HALF_OPEN,
                                                 !.success_count_in_half_open = 0]
        /\ (now - last.pre.opened_at < reset_timeout) =>
               /\ last.val = FALSE
               /\ LastCircuit = last.pre

C4_Witness ==
    /\ LastIs("is_call_allowed") /\ last.pre.state = OPEN
    /\ last.val = TRUE
    /\ LastCircuit.state = HALF_OPEN
    /\ now - last.pre.opened_at = reset_timeout

\* C5: between the OPEN -> HALF_OPEN transition and the next state change at
\* most half_open_max_calls calls are admitted.
C5_TrialBudget ==
    \A s \in DOMAIN circuits :
        (enabled /\ circuits[s].state = HALF_OPEN) => admitted[s] <= half_open_max_calls

\* C6: record_failure on a HALF_OPEN circuit leaves it OPEN with opened_at the
\* current time, success_count_in_half_open = 0 and failure_count one higher,
\* and is_call_allowed is false from then until reset_timeout has elapsed.
C6_HalfOpenFailureReopens ==
    (LastIs("record_failure") /\ last.pre.state = HALF_OPEN) =>
        /\ LastCircuit = [last.pre EXCEPT !.state = OPEN,
                                          !.opened_at = now,
                                          !.success_count_in_half_open = 0,
                                          !.failure_count = last.pre.failure_count + 1,
                                          !.last_failure_time = LastCircuit.last_failure_time]
        /\ LastCircuit.last_failure_time \in {now - 1, now}
        /\ \A t \in now..(now + reset_timeout - 1) :
               is_call_allowed_body(LastCircuit, t) = [ok |-> FALSE, circuit |-> LastCircuit]

C6_Witness ==
    /\ LastIs("record_failure") /\ last.pre.state = HALF_OPEN
    /\ LastCircuit.state = OPEN
    /\ last.pre.opened_at < now
    /\ reset_timeout = 2

\* C7: record_success on a HALF_OPEN circuit increments
\* success_count_in_half_open; below half_open_max_calls the circuit stays
\* HALF_OPEN and nothing else changes, and at half_open_max_calls it becomes
\* CLOSED with failure_count = 0 and success_count_in_half_open = 0.
C7_HalfOpenSuccess ==
    (LastIs("record_success") /\ last.pre.state = HALF_OPEN) =>
        IF last.pre.success_count_in_half_open + 1 < half_open_max_calls
        THEN LastCircuit = [last.pre EXCEPT !.success_count_in_half_open = @ + 1]
        ELSE LastCircuit = [last.pre EXCEPT !.state = CLOSED,
                                            !.failure_count = 0,
                                            !.success_count_in_half_open = 0]

\* the second of two trial successes closed the circuit
C7_Witness ==
    /\ LastIs("record_success") /\ last.pre.state = HALF_OPEN
    /\ half_open_max_calls = 2
    /\ last.pre.success_count_in_half_open = 1
    /\ last.pre.failure_count > 0
    /\ LastCircuit.state = CLOSED

\* C8: record_success on a CLOSED circuit sets failure_count to 0 and changes
\* nothing else; on an OPEN circuit it changes no field.
C8_SuccessFrame ==
    /\ (LastIs("record_success") /\ last.pre.state = CLOSED) =>
           LastCircuit = [last.pre EXCEPT !.failure_count = 0]
    /\ (LastIs("record_success") /\ last.pre.state = OPEN) =>
           LastCircuit = last.pre

C8_Witness ==
    /\ LastIs("record_success") /\ last.pre.state = CLOSED
    /\ last.pre.failure_count > 0
    /\ LastCircuit.failure_count = 0

\* a success reported on an OPEN circuit
C8_WitnessOpen ==
    /\ LastIs("record_success") /\ last.pre.state = OPEN

StateSteps ==
    {<<CLOSED, OPEN>>, <<OPEN, HALF_OPEN>>, <<HALF_OPEN, CLOSED>>, <<HALF_OPEN, OPEN>>}

\* C9: every record starts CLOSED with zero counters; in one step a record's
\* state stays or moves along CLOSED->OPEN, OPEN->HALF_OPEN, HALF_OPEN->CLOSED,
\* HALF_OPEN->OPEN; no record is ever deleted.
C9_StateMachine ==
    [][\A s \in Services :
          /\ (s \in DOMAIN circuits) =>
                 /\ s \in DOMAIN circuits'
                 /\ \/ circuits'[s].state = circuits[s].state
                    \/ <<circuits[s].state, circuits'[s].state>> \in StateSteps
          /\ (s \notin DOMAIN circuits /\ s \in DOMAIN circuits') =>
                 /\ last'.svc = s
                 /\ last'.pre = CircuitStats
                 /\ last'.pre.state = CLOSED
                 /\ last'.pre.failure_count = 0
                 /\ last'.pre.success_count_in_half_open = 0
                 /\ \/ circuits'[s].state = CLOSED
                    \/ <<CLOSED, circuits'[s].state>> \in StateSteps]_vars

\* one record has just closed after a trial while the other is open
C9_Witness ==
    /\ DOMAIN circuits = Services
    /\ LastIs("record_success")
    /\ last.pre.state = HALF_OPEN /\ LastCircuit.state = CLOSED
    /\ \E s \in Services : circuits[s].state = OPEN

\* C10: failure_count and success_count_in_half_open are never negative;
\* success_count_in_half_open is 0 after every state change, 0 whenever the
\* state is CLOSED or OPEN, and below half_open_max_calls in HALF_OPEN.
C10_Counters ==
    /\ \A s \in DOMAIN circuits :
          LET c == circuits[s]
          IN  /\ c.failure_count >= 0
              /\ c.success_count_in_half_open >= 0
              /\ (c.state \in {CLOSED, OPEN}) => c.success_count_in_half_open = 0
              /\ (c.state = HALF_OPEN) => c.success_count_in_half_open < half_open_max_calls
    /\ (last.svc \in DOMAIN circuits /\ last.pre.state # LastCircuit.state) =>
           LastCircuit.success_count_in_half_open = 0

\* a trial success has been counted and the circuit then reopened
C10_Witness ==
    /\ LastIs("record_failure")
    /\ last.pre.state = HALF_OPEN
    /\ last.pre.success_count_in_half_open = 1
    /\ LastCircuit.state = OPEN

(***************************************************************************)
(* Claims about identity headers, checked under PipelineSpec.              *)
(***************************************************************************)
IdentityHeaderNames == {H_X_User_ID, H_X_User_Email, H_X_User_Roles, H_X_Email_Verified}

\* the caller sent a header of this name, in some letter case, with the value attacker
ClientSpoofs(name) ==
    \E i \in 1..Len(client.lines) :
        lower(client.lines[i][1]) = lower(name) /\ client.lines[i][2] = Attacker

\* the caller presented the valid credential of user u1
ClientIsU1 ==
    \E i \in 1..Len(client.lines) :
        client.lines[i] = <<H_Authorization, <<"Bearer", "tok-u1">>>>

U1 == validate_token("tok-u1").user

\* C2: when a caller sends an identity header with value attacker on a
\* protected path together with a valid credential for u1, the forwarded
\* request carries that header with u1's value and carries no header of that
\* name, in any letter case, with value attacker (X-User-ID and the other three).
C2_SpoofedIdentityReplaced ==
    (forwarded.sent /\ ~is_public_endpoint(client.path) /\ ClientIsU1) =>
        \A name \in IdentityHeaderNames :
            ClientSpoofs(name) =>
                /\ \E j \in 1..Len(forwarded.headers) :
                       /\ forwarded.headers[j][1] = name
                       /\ forwarded.headers[j][2] = dict_get(to_headers(U1), name)
                /\ \A j \in 1..Len(forwarded.headers) :
                       lower(forwarded.headers[j][1]) = lower(name) =>
                           forwarded.headers[j][2] # Attacker

\* C3: on protected and public paths alike, no header whose name starts, in
\* lower case, with x-user- is forwarded unless it is one of the headers made
\* from the UserContext.
C3_ReservedPrefixDropped ==
    forwarded.sent =>
        \A j \in 1..Len(forwarded.headers) :
            startswith(lower(forwarded.headers[j][1]), X_USER_PREFIX) =>
                /\ request.has_user_headers
                /\ \E k \in 1..Len(request.user_headers) :
                       request.user_headers[k] = forwarded.headers[j]

(***************************************************************************)
(* Claims about concurrent callers, checked under ConcurrentSpec.          *)
(***************************************************************************)
\* C11: under any interleaving of two callers making is_call_allowed,
\* record_success and record_failure calls on the same backend, whenever no
\* call is inside its locked block the records equal those obtained by applying
\* the completed calls whole, one at a time, in the order they completed; a
\* call about to return has left the record that the whole call gives from the
\* record of the calls completed before it (no lost failure_count increment, no
\* half-made transition), and is_call_allowed returns what the whole call returns.
C11_Atomic ==
    /\ (lock = {}) => circuits = serial
    /\ \A t \in Callers :
          (threads[t].pc = "release") =>
              LET s == threads[t].svc
                  before == get_or_create_circuit(serial, s)[s]
              IN  /\ circuits[s] = apply_call(threads[t].op, before,
                                              threads[t].t1, threads[t].t2)
                  /\ (threads[t].op = "is_call_allowed") =>
                         threads[t].ok = is_call_allowed_body(before, threads[t].t1).ok

\* one caller has opened the circuit by its failure report and is about to
\* return while the other waits for the lock with a failure report of its own
C11_Witness ==
    /\ threads["t1"].pc = "release" /\ threads["t1"].op = "record_failure"
    /\ threads["t2"].pc = "acquire" /\ threads["t2"].op = "record_failure"
    /\ circuits[ContendedService].state = OPEN
    /\ circuits[ContendedService].failure_count = 2
    /\ lock = {"t1"}

(***************************************************************************)
(* Claims about a disabled breaker, checked under Spec.                    *)
(***************************************************************************)
\* C12: with the breaker disabled, every is_call_allowed call returns true,
\* and no is_call_allowed, record_success or record_failure call changes or
\* creates a record, whatever calls were made before.
C12_DisabledIsInert ==
    [][(~enabled /\ last'.op \in BreakerCalls) =>
           /\ circuits' = circuits
           /\ (last'.op = "is_call_allowed") => (last'.val = TRUE)]_vars

\* a failure was reported for a backend of a disabled breaker that has no
\* record, after get_state had made a record for the other backend
C12_Witness ==
    /\ ~enabled
    /\ last.op = "record_failure" /\ last.svc = "svc-y"
    /\ DOMAIN circuits = {"svc-x"}

(***************************************************************************)
(* Claims about proxy_request, checked under PipelineSpec.                 *)
(***************************************************************************)
\* the name proxy_request gives the backend of the request in hand
ResolvedService == extract_service_name(route_backend(request.path))

\* C13: when is_call_allowed is false for the resolved backend, proxy_request
\* returns 503 with error service_unavailable, sends nothing to the backend and
\* leaves every record as it was, also while the response goes out.
C13_RejectedWhenOpen ==
    [][/\ (/\ pc = "proxy"
           /\ enabled
           /\ ResolvedService \in DOMAIN circuits
           /\ ~is_call_allowed_body(circuits[ResolvedService], now).ok) =>
              /\ pc' = "done"
              /\ response' = ErrorResponse(503, "service_unavailable")
              /\ forwarded' = NotForwarded
              /\ outcome' = NoOutcome
              /\ circuits' = circuits
       /\ (pc = "done" /\ response.error = "service_unavailable") =>
              /\ circuits' = circuits
              /\ ~forwarded.sent]_vars

\* a request was rejected for a backend whose circuit is open
C13_Witness ==
    /\ pc = "done"
    /\ response = ErrorResponse(503, "service_unavailable")
    /\ ~forwarded.sent
    /\ "svc-y" \in DOMAIN circuits
    /\ circuits["svc-y"].state = OPEN

C15_StatusClassified ==
    [][(pc = "backend" /\ outcome'.kind = "status" /\ outcome'.raised = "none" /\ enabled) =>
           LET s == forwarded.service
           IN  /\ response'.status = outcome'.status
               /\ IF outcome'.status < 500
                  THEN circuits'[s] = record_success_body(circuits[s])
                  ELSE circuits'[s] = record_failure_body(circuits[s], now, now)]_vars

(***************************************************************************)
(* Claims about authentication, checked under PipelineSpec and             *)
(* CredentialSpec.                                                         *)
(***************************************************************************)
\* the caller sent no Authorization header
NoAuthorization ==
    \A i \in 1..Len(client.lines) : lower(client.lines[i][1]) # lower(H_Authorization)

AnonymousHeaders == to_headers(create_anonymous_user)

\* the request in hand has been through AuthMiddleware.dispatch
Dispatched == pc \in {"proxy", "backend", "done"}

\* C16: for a request to a protected path without an Authorization header,
\* when authentication is required the response is 401 and nothing is
\* forwarded; when it is optional the request goes on with the identity
\* headers of the configured anonymous user, which are the ones forwarded; and
\* no request carries the anonymous identity when authentication is required.
C16_MissingCredential ==
    /\ (Dispatched /\ ~is_public_endpoint(client.path) /\ NoAuthorization) =>
           IF auth_required
           THEN /\ pc = "done"
                /\ response.status = 401
                /\ ~forwarded.sent
           ELSE /\ request.has_user_headers
                /\ request.user_headers = AnonymousHeaders
                /\ response.status # 401
                /\ (pc = "done") => (\/ forwarded.sent
                                  \/ response.error = "service_unavailable"
                                  \/ outcome.kind = "body")
                /\ forwarded.sent =>
                       \A k \in 1..Len(AnonymousHeaders) :
                           \E j \in 1..Len(forwarded.headers) :
                               forwarded.headers[j] = AnonymousHeaders[k]
    /\ auth_required =>
           /\ request.user_headers # AnonymousHeaders
           /\ forwarded.sent =>
                  \A j \in 1..Len(forwarded.headers) :
                      forwarded.headers[j] # AnonymousHeaders[1]

\* an anonymous request is at the backend with the anonymous user's id
C16_Witness ==
    /\ pc = "backend"
    /\ ~auth_required
    /\ NoAuthorization
    /\ client.path = P_cases
    /\ forwarded.sent
    /\ \E j \in 1..Len(forwarded.headers) :
           forwarded.headers[j] = <<H_X_User_ID, <<"anonymous_admin">>>>

\* the token of the caller's Authorization header, when it is the first line
\* and has two words
ClientToken ==
    IF /\ Len(client.lines) > 0
       /\ client.lines[1][1] = H_Authorization
       /\ Len(client.lines[1][2]) = 2
    THEN client.lines[1][2][2]
    ELSE "none"

DefectiveTokens == {"tok-bad", "tok-expired", "tok-iss", "tok-aud", "tok-nosub"}

\* C17: with the fm-auth-service provider, when validate_token is called and
\* the credential has a bad signature, a wrong issuer or audience, has
\* expired or lacks the subject, or the keys cannot be fetched, the provider
\* raises ValueError, the pipeline answers 401, nothing is forwarded, and no
\* exception leaves the pipeline.
C17_ProviderFailuresAre401 ==
    (/\ auth_provider = "fm-auth-service"
     /\ validated
     /\ (ClientToken \in DefectiveTokens \/ jwks # "keys")) =>
        /\ FMAuthProvider_validate_token(ClientToken).raised = "ValueError"
        /\ pc = "done"
        /\ response = ErrorResponse(401, "invalid_token")
        /\ ~forwarded.sent

\* a credential without subject was answered 401
C17_Witness ==
    /\ auth_provider = "fm-auth-service"
    /\ validated
    /\ jwks = "keys"
    /\ ClientToken = "tok-nosub"
    /\ response.status = 401

\* a good credential was answered 401 because the keys could not be fetched
C17_WitnessKeyFetch ==
    /\ auth_provider = "fm-auth-service"
    /\ validated
    /\ jwks = "http_error"
    /\ ClientToken = "tok-u1"
    /\ response.status = 401

TypedErrors ==
    {"missing_authorization", "invalid_token", "rate_limit_exceeded",
     "service_unavailable", "backend_timeout", "backend_error", "proxy_error"}

\* C18: every request ends in a response of the backend or in one of the
\* typed responses 401, 429, 503, 504, 502, 500, never in an exception that
\* leaves the pipeline; and the app does not run with a provider that is a
\* stub, so that validate_token is never called on one.
C18_NoUnhandledFault ==
    /\ (pc = "done") =>
           \/ response.error = "none" /\ forwarded.sent
           \/ /\ response.error \in TypedErrors
              /\ response.status \in {401, 429, 503, 504, 502, 500}
    /\ (auth_provider = "supabase") => ~validated

\* C19: for a request to one of the public paths, whatever credential it
\* carries, validate_token is not called, the pipeline answers no 401, the
\* request goes on to the proxy, no identity headers are attached, and none of
\* the identity headers of the credential's user is forwarded.
C19_PublicPathBypass ==
    (/\ Dispatched
     /\ \E i \in 1..Len(public_paths) : client.path = public_paths[i]) =>
        /\ ~validated
        /\ response.status # 401
        /\ response.error \notin {"missing_authorization", "invalid_token"}
        /\ (pc = "done") => (\/ forwarded.sent
                                  \/ response.error = "service_unavailable"
                                  \/ outcome.kind = "body")
        /\ ~request.has_user_headers
        /\ request.user_headers = <<>>
        /\ forwarded.sent =>
               \A j \in 1..Len(forwarded.headers) :
                   /\ forwarded.headers[j][1] \notin IdentityHeaderNames
                   /\ \A tok \in {"tok-u1", "tok-u2"}, k \in 1..4 :
                          forwarded.headers[j] # to_headers(validate_token(tok).user)[k]

\* a login request carrying u1's valid credential is at the backend
C19_Witness ==
    /\ pc = "backend"
    /\ client.path = P_auth_login
    /\ ClientIsU1
    /\ forwarded.sent

(***************************************************************************)
(* Claims about UserContext.to_headers, checked under EncodeSpec.          *)
(***************************************************************************)
\* json.loads of the text of a JSON array of strings, from its words: the items in order
json_array_items(words) ==
    SelectSeq(words, LAMBDA w : w \notin {"[", "]", "\"", ","})

\* C20: to_headers returns exactly four entries, X-User-ID with the user
\* id, X-User-Email with the email, X-User-Roles with the roles as a JSON
\* array in list order and X-Email-Verified with 'true' or 'false' in lower
\* case; two calls on contexts with equal fields return identical headers.
C20_ToHeaders ==
    /\ \A i \in 1..Len(encoded) :
          LET uc == encoded[i].of
              h == encoded[i].headers
              roles == dict_get(h, H_X_User_Roles)
          IN  /\ Len(h) = 4
              /\ dict_keys(h) = IdentityHeaderNames
              /\ dict_get(h, H_X_User_ID) = <<uc.user_id>>
              /\ dict_get(h, H_X_User_Email) = <<uc.email>>
              /\ roles[1] = "[" /\ roles[Len(roles)] = "]"
              /\ json_array_items(roles) = uc.roles
              /\ dict_get(h, H_X_Email_Verified) =
                     IF uc.email_verified THEN <<"true">> ELSE <<"false">>
    /\ \A i, j \in 1..Len(encoded) :
          (encoded[i].of = encoded[j].of) => (encoded[i].headers = encoded[j].headers)

\* two contexts with the same four fields, two roles in the order admin, user
C20_Witness ==
    /\ Len(encoded) = 2
    /\ encoded[1].of = encoded[2].of
    /\ encoded[1].of.roles = <<"admin", "user">>
    /\ ~encoded[1].of.email_verified

(***************************************************************************)
(* Claims about the rate limiter, checked under RateLimitSpec and          *)
(* BurstSpec.                                                              *)
(***************************************************************************)
\* the bucket the last is_allowed call left for its identifier
DecidedBucket == rate_limiter.buckets[decision.identifier]

\* C21: in the local-fallback limiter, after any is_allowed calls at
\* non-decreasing times, every bucket holds at least 0 tokens and at most
\* burst_size tokens; a call is allowed exactly when its bucket holds one token
\* or more after the refill; an allowed call takes exactly one token from the
\* refilled bucket and a denied call takes none.
C21_BucketBounds ==
    /\ \A i \in DOMAIN rate_limiter.buckets :
          /\ 0 <= rate_limiter.buckets[i].tokens
          /\ rate_limiter.buckets[i].tokens <= rate_limiter.burst_size * TokenUnit
    /\ (decision.mode = "memory") =>
          /\ decision.allowed <=> (decision.refilled >= TokenUnit)
          /\ decision.allowed => DecidedBucket.tokens = decision.refilled - TokenUnit
          /\ ~decision.allowed => DecidedBucket.tokens = decision.refilled

\* a call is denied on a bucket that holds a part of a token, three calls and
\* more than a minute after the bucket was made full
C21_Witness ==
    /\ decision.mode = "memory"
    /\ ~decision.allowed
    /\ DecidedBucket.tokens > 0
    /\ DecidedBucket.last_update > WINDOW

StoreServed ==
    /\ decision' # decision
    /\ decision'.mode = "redis"
    /\ decision'.fault = "none"
    /\ redis.up

\* C23: in shared-store mode, every is_allowed call the store serves adds
\* exactly one to the identifier's counter and touches no other counter, and is
\* allowed if and only if the count after the increment is at most
\* requests_per_minute, so that the calls of one window are allowed up to the
\* limit-th and denied after it; the expiry of 60 seconds is set by the
\* increment that yields 1 and is left as it was by every other.
C23_FixedWindow ==
    [][StoreServed =>
          LET key == rate_limit_key(decision'.identifier)
              count == store_count(decision'.identifier) + 1
          IN  /\ key \in DOMAIN redis'.keys
              /\ redis'.keys[key].value = count
              /\ decision'.current = count
              /\ decision'.allowed <=> (count <= rate_limiter.requests_per_minute)
              /\ redis'.keys[key].expire_at =
                    IF count = 1 THEN now + WINDOW ELSE redis.keys[key].expire_at
              /\ \A k \in DOMAIN redis.keys \ {key} :
                    k \in DOMAIN redis'.keys /\ redis'.keys[k] = redis.keys[k]]_vars

\* the call after the limit-th of a window is denied, and the window still
\* ends when the first call set it to end
C23_Witness ==
    /\ decision.mode = "redis" /\ decision.fault = "none"
    /\ ~decision.allowed
    /\ decision.current = rate_limiter.requests_per_minute + 1
    /\ rate_limit_key(decision.identifier) \in DOMAIN redis.keys
    /\ redis.keys[rate_limit_key(decision.identifier)].value = decision.current
    /\ redis.keys[rate_limit_key(decision.identifier)].expire_at # None
    /\ redis.keys[rate_limit_key(decision.identifier)].expire_at < decision.at + WINDOW

\* the store failed in the last is_allowed call: the INCR got no count, or
\* the EXPIRE that was called failed
StoreError ==
    /\ decision.mode = "redis"
    /\ \/ ~decision.store_up
       \/ decision.fault \in {"incr_error", "incr_reply_lost"}
       \/ decision.fault = "expire_error" /\ decision.expire_called

\* C24: an is_allowed call in which the shared store fails (the INCR fails or
\* brings no count, the EXPIRE fails, the connection is lost) allows the
\* request: the call in which the store failed never answers with a denial.
C24_FailOpen ==
    StoreError => decision.allowed

\* the store stopped answering with the identifier's count over the limit, and
\* the next call is allowed
C24_Witness ==
    /\ StoreError
    /\ ~decision.store_up
    /\ decision.allowed
    /\ store_count(decision.identifier) > rate_limiter.requests_per_minute

\* C25: the backend that serves an is_allowed call of an enabled limiter is
\* chosen from whether the shared store answers at the moment of the call: the
\* store when it answers, the local bucket when it does not, whatever the
\* store did when the process started.
C25_BackendChosenPerCall ==
    (decision.mode \in {"redis", "memory"}) =>
        (decision.mode = "redis" <=> decision.store_up)

(***************************************************************************)
(* Claims about the rate limiter in the pipeline, checked under            *)
(* PipelineSpec.                                                           *)
(***************************************************************************)
\* RateLimitMiddleware.dispatch: if request.url.path == "/health"
rate_limit_exempt(path) == path = "/health"

\* the rate limiter has been asked, and `decision` is its answer
RateLimitDecided == decision.mode # "none"

\* C26: in the pipeline as create_app assembles it, a request to a path that
\* is not exempt has the rate limiter's decision, and it is to allow, before
\* the validator is called and before anything is forwarded; a request
\* answered 429 has reached neither.
C26_LimiterFirst ==
    /\ ((validated \/ forwarded.sent) /\ ~rate_limit_exempt(client.path)) =>
           (RateLimitDecided /\ decision.allowed)
    /\ (response.status = 429) => (~validated /\ ~forwarded.sent)

\* C27: the response to a request for any path but /health comes after a
\* decision of the rate limiter and carries the limit and remaining headers of
\* that decision, and the reset header only when the shared store served it;
\* a request for /health is never answered 429.
C27_HeadersOnEveryResponse ==
    /\ (pc = "done" /\ ~rate_limit_exempt(client.path)) =>
           /\ RateLimitDecided
           /\ {H_Limit, H_Remaining} \subseteq DOMAIN decision.headers
           /\ (H_Reset \in DOMAIN decision.headers) => (decision.mode = "redis")
    /\ (pc = "done" /\ rate_limit_exempt(client.path)) => (response.status # 429)

\* the breaker let the request in hand through: proxy_request went past
\* is_call_allowed
Admitted == forwarded.sent \/ outcome.kind = "body"

\* C30: every proxy_request that the breaker admitted makes exactly one report
\* to the breaker, record_success or record_failure and never both and never
\* none, before it returns or fails, also when reading the request body or
\* building the caller's response raises.
C30_ExactlyOneReport ==
    (pc = "done" /\ Admitted) => Len(reports) = 1

(***************************************************************************)
(* Claims about the key cache and the event loop, checked under LoopSpec.  *)
(***************************************************************************)
\* the key and the timestamp a reader of the cache finds
CachedPair == [key |-> key_cache.key, time |-> key_cache.time]

\* the step is coroutine r's validate call reading the cache
ReadsCache(r) == coroutines[r].pc = "new" /\ coroutines'[r].pc # "new"

\* C28: a validate call that finds a cached key younger than cache_ttl uses it
\* and fetches nothing, whatever key the service publishes by then; one that
\* finds no key, or a key as old as cache_ttl or older, goes on to fetch; the
\* cache changes only by the writes of a fetch that succeeded; and every
\* validate call that reads the cache finds the key and the timestamp of one
\* and the same fetch, as does any moment at which the thread is free.
C28_CacheByTTL ==
    [][/\ \A r \in Requests :
             ReadsCache(r) =>
                 /\ CachedPair = fetched
                 /\ IF key_cache.key # None /\ now - key_cache.time < key_cache.cache_ttl
                    THEN /\ coroutines'[r].pc = "decode"
                         /\ coroutines'[r].public_key = key_cache.key
                         /\ key_cache' = key_cache
                    ELSE coroutines'[r].pc = "key_fetch"
       /\ (key_cache' # key_cache) =>
             \E r \in Requests :
                 /\ coroutines[r].pc \in {"cache_key", "cache_time"}
                 /\ running = r
       /\ (running = "") => (CachedPair = fetched)]_vars

\* a request is being validated with a key cached a second ago, while the
\* service publishes another key by now
C28_Witness ==
    \E r \in Requests :
        /\ r \in DOMAIN coroutines
        /\ coroutines[r].pc = "decode"
        /\ coroutines[r].public_key = key_cache.key
        /\ key_cache.time < coroutines[r].current_time
        /\ key_cache.key # jwk_server

\* C29: the network calls of a request are suspension points: while one
\* request waits on its key fetch or on its backend call, the thread is free to
\* take up another request that has come in.
C29_NetworkCallsSuspend ==
    \A r \in Requests, q \in Requests :
        (/\ r # q
         /\ coroutines[r].pc \in NetworkCalls
         /\ coroutines[q].pc = "new") => running = ""


(***************************************************************************)
(* Claims about calls in flight, checked under FlightSpec and RecoverySpec.*)
(***************************************************************************)
\* C31: a record leaves HALF_OPEN for CLOSED only by the success report of a
\* call that was admitted as a trial (by the OPEN->HALF_OPEN transition or
\* while HALF_OPEN); the success report of a call admitted while the record
\* was CLOSED never closes it.
C31_OnlyTrialsClose ==
    [][\A s \in DOMAIN circuits :
          (circuits[s].state = HALF_OPEN /\ circuits'[s].state = CLOSED) =>
              /\ last'.op = "record_success"
              /\ last'.svc = s
              /\ last'.val = "trial"]_vars

\* C32: a call to a backend is rejected only if a failure was reported for
\* that backend: two distinct base URLs never share a record, so the failures
\* of one never cause the 503 of another.
C32_FailuresStayWithTheirBackend ==
    in_flight.rejected \subseteq in_flight.failed

\* C36: once the backends answer again, every record that is OPEN or
\* HALF_OPEN becomes CLOSED with failure_count = 0.
C36_RecoveryIsPossible ==
    \A s \in {extract_service_name(u) : u \in BackendURLs} :
        (in_flight.recovered /\ s \in DOMAIN circuits /\ circuits[s].state # CLOSED)
            ~> (s \in DOMAIN circuits
                /\ circuits[s].state = CLOSED
                /\ circuits[s].failure_count = 0)

\* a record was closed from HALF_OPEN after the backends had recovered
C36_Witness ==
    /\ in_flight.recovered
    /\ last.op = "record_success"
    /\ last.pre.state = HALF_OPEN
    /\ last.svc \in DOMAIN circuits
    /\ circuits[last.svc].state = CLOSED
    /\ circuits[last.svc].failure_count = 0
    /\ now > 1

(***************************************************************************)
(* Further claims about the records of the breaker, checked under Spec.    *)
(***************************************************************************)
\* C33: while a circuit is CLOSED its failure_count is the number of
\* record_failure calls since the last record_success, which is below
\* fail_threshold; a record_success on a CLOSED circuit leaves it CLOSED with
\* failure_count = 0; and a CLOSED circuit becomes OPEN only by the
\* record_failure call that makes that number fail_threshold.
C33_OpensOnlyOnConsecutiveFailures ==
    [][enabled =>
          \A s \in DOMAIN circuits' :
              LET c == circuits'[s]
              IN  /\ (c.state = CLOSED) =>
                         (c.failure_count = streak'[s] /\ streak'[s] < fail_threshold)
                  /\ (last'.op = "record_success" /\ last'.svc = s
                                                  /\ last'.pre.state = CLOSED) =>
                         (c.state = CLOSED /\ c.failure_count = 0)
                  /\ (s \in DOMAIN circuits /\ circuits[s].state = CLOSED
                                            /\ c.state = OPEN) =>
                         /\ last'.op = "record_failure"
                         /\ last'.svc = s
                         /\ streak[s] = fail_threshold - 1
                         /\ streak'[s] = fail_threshold]_vars

\* a second failure, after a success, found failure_count = 0 and left the
\* circuit CLOSED
C33_Witness ==
    /\ LastIs("record_failure")
    /\ fail_threshold = 2
    /\ last.pre.state = CLOSED
    /\ last.pre.failure_count = 0
    /\ last.pre.last_failure_time # None
    /\ last.pre.opened_at = None
    /\ LastCircuit.state = CLOSED
    /\ LastCircuit.failure_count = 1

\* C34: in every state of an enabled breaker with fail_threshold >= 1, a
\* CLOSED record has failure_count < fail_threshold, and an OPEN or HALF_OPEN
\* record has opened_at set, last_failure_time set and
\* failure_count >= fail_threshold.
C34_RecordInvariant ==
    (enabled /\ fail_threshold >= 1) =>
        \A s \in DOMAIN circuits :
            LET c == circuits[s]
            IN  /\ (c.state = CLOSED) => c.failure_count < fail_threshold
                /\ (c.state \in {OPEN, HALF_OPEN}) =>
                       /\ c.opened_at # None
                       /\ ~Falsy(c.opened_at)
                       /\ c.last_failure_time # None
                       /\ c.failure_count >= fail_threshold

\* a record that was opened, closed by a trial, and is CLOSED with a failure
\* counted again, next to one that is HALF_OPEN after a failed trial
C34_Witness ==
    /\ enabled
    /\ \E s \in DOMAIN circuits :
          /\ circuits[s].state = CLOSED
          /\ circuits[s].opened_at # None
    /\ \E s \in DOMAIN circuits :
          /\ circuits[s].state = HALF_OPEN
          /\ circuits[s].failure_count > fail_threshold

\* C35: record_failure on an OPEN circuit adds one to failure_count and sets
\* last_failure_time, and leaves state, opened_at and the trial count as
\* they were, so the time at which calls are admitted again is the same.
C35_LateFailureOnOpen ==
    [][(enabled /\ last'.op = "record_failure" /\ last'.svc \in DOMAIN circuits'
                /\ last'.pre.state = OPEN) =>
          LET c == circuits'[last'.svc]
          IN  /\ c.state = OPEN
              /\ c.opened_at = last'.pre.opened_at
              /\ c.failure_count = last'.pre.failure_count + 1
              /\ c.last_failure_time = now
              /\ c.success_count_in_half_open = last'.pre.success_count_in_half_open
              /\ \A t \in 0..(MaxTime + 1) :
                    should_attempt_reset(c, t) = should_attempt_reset(last'.pre, t)
              /\ \A s \in DOMAIN circuits : s # last'.svc => circuits'[s] = circuits[s]]_vars

\* a failure was reported on an OPEN circuit later than the circuit opened
C35_Witness ==
    /\ LastIs("record_failure")
    /\ last.pre.state = OPEN
    /\ LastCircuit.state = OPEN
    /\ LastCircuit.last_failure_time > LastCircuit.opened_at

(***************************************************************************)
(* A further claim about the shared store, checked under RateLimitSpec.    *)
(***************************************************************************)
\* C37: in shared-store mode every counter the store holds carries an expiry,
\* also after a call whose EXPIRE failed or was not reached, so that an
\* identifier that was denied is allowed again when the window of 60 seconds
\* has passed.
C37_CounterCarriesExpiry ==
    \A k \in DOMAIN redis.keys : redis.keys[k].expire_at # None

(***************************************************************************)
(* Further claims about authentication, checked under CredentialSpec.      *)
(***************************************************************************)
\* the value of the Authorization header the caller sent, split into words
PresentedAuthorization == client.lines[1][2]

\* C38: for a request to a protected path with an Authorization header that
\* is not `Bearer <token>`, or whose credential the provider does not accept,
\* the response is 401 whether authentication is required or optional, the
\* request does not carry the anonymous identity, a header that is not
\* `Bearer <token>` is not given to the validator, and nothing is forwarded.
C38_InvalidCredentialIs401 ==
    (/\ Dispatched
     /\ ~is_public_endpoint(client.path)
     /\ ~NoAuthorization
     /\ \/ ~extract_bearer_token(PresentedAuthorization).ok
        \/ ~validate_token(extract_bearer_token(PresentedAuthorization).token).ok) =>
        /\ pc = "done"
        /\ response.status = 401
        /\ ~forwarded.sent
        /\ ~request.has_user_headers
        /\ ~extract_bearer_token(PresentedAuthorization).ok => ~validated

(***************************************************************************)
(* A further claim about the key cache, checked under LoopSpec.            *)
(***************************************************************************)
\* the step is the failure of coroutine r's key fetch
FetchFails(r) == coroutines[r].pc = "key_fetch" /\ coroutines'[r].pc = "new"

\* C39: a key fetch that fails leaves the cached key and its timestamp as
\* they were and ends that validate call without a key; the cache it leaves
\* is not fresh then or later, so the next validate call fetches again; and
\* a credential is verified only with a key fetched by the same call or with
\* a cached key younger than cache_ttl.
C39_FailedFetchKeepsCache ==
    [][\A r \in Requests :
          /\ FetchFails(r) =>
                /\ key_cache' = key_cache
                /\ fetched' = fetched
                /\ coroutines'[r].public_key = None
                /\ \A t \in coroutines[r].current_time..(MaxTime + 1) :
                      ~cache_fresh(key_cache', t)
          /\ (coroutines[r].pc # "decode" /\ coroutines'[r].pc = "decode") =>
                \/ /\ coroutines[r].pc = "cache_time"
                   /\ key_cache'.key = coroutines'[r].public_key
                   /\ key_cache'.time = coroutines'[r].current_time
                \/ /\ coroutines[r].pc = "new"
                   /\ coroutines'[r].public_key = key_cache.key
                   /\ key_cache.key # None
                   /\ now - key_cache.time < key_cache.cache_ttl]_vars

\* a fetch failed while a key older than cache_ttl was in the cache, and the
\* key is still there
C39_Witness ==
    \E r \in Requests :
        /\ r \in DOMAIN coroutines
        /\ coroutines[r].pc = "new"
        /\ coroutines[r].current_time > 0
        /\ key_cache.key # None
        /\ coroutines[r].current_time - key_cache.time >= key_cache.cache_ttl
        /\ CachedPair = fetched


\* the public endpoints as listed
ListedPublicPaths == {public_paths[i] : i \in 1..Len(public_paths)}

\* C40: a request to a path that is not one of the listed public endpoints
\* is forwarded to a backend only with the identity headers of a UserContext,
\* one that validate_token returned or the anonymous one when authentication
\* is optional.
C40_OnlyListedPathsArePublic ==
    (forwarded.sent /\ client.path \notin ListedPublicPaths) =>
        /\ ~is_public_endpoint(client.path)
        /\ request.has_user_headers
        /\ \/ validated
           \/ ~auth_required /\ request.user_headers = AnonymousHeaders

====
